---- MODULE Spec2Model ----
(***************************************************************************)
(* State-machine model of the Smart Product Assistant frontend:            *)
(*   - App (product list, search, filters, sorting, error snackbar, tabs)  *)
(*     with the panels of its history and popular tabs,                    *)
(*   - SearchBar (query field, suggestions, submit),                       *)
(*   - services/api (transformProduct, apiUtils.getErrorMessage,           *)
(*     apiUtils.healthCheck),                                              *)
(*   - AuthProvider with UserMenu, LoginForm and RegisterForm,             *)
(*   - SearchHistory and PopularSearches.                                  *)
(* JavaScript strings that the code inspects are sequences of              *)
(* one-character strings; opaque texts are TLA+ strings.                   *)
(***************************************************************************)
EXTENDS Integers, Sequences, FiniteSets, TLC

(***************************************************************************)
(* Bounds of the model                                                     *)
(***************************************************************************)
\* longest text typed into the search field of a stand-alone SearchBar
MaxLen == 3
\* most product requests awaiting their response at the same time
MaxInFlight == 2
\* most pending blur timers of the search field
MaxBlurTimers == 1
\* most onSearch calls recorded for a stand-alone SearchBar
MaxCalls == 2
\* longest product list of a response body
MaxProducts == 3
\* most auth requests awaiting their response at the same time
MaxAuthInFlight == 2

(***************************************************************************)
(* Strings                                                                 *)
(***************************************************************************)
\* characters String.prototype.trim removes (those the model types)
WhitespaceChars == {" ", "\t"}
\* characters the model types into the search field
TypeChars == {" ", "a"}

RECURSIVE StringsUpTo(_)
StringsUpTo(n) ==
    IF n = 0 THEN {<<>>}
    ELSE LET shorter == StringsUpTo(n - 1)
         IN  shorter \cup {Append(s, c) : s \in {t \in shorter : Len(t) = n - 1}, c \in TypeChars}

\* every value the search field of a stand-alone SearchBar can hold
QueryStrings == StringsUpTo(MaxLen)
\* the texts the search field of App holds when it is submitted
TypedStrings == {<<>>, <<" ">>, <<" ", "a">>, <<"a", " ">>}

RECURSIVE TrimStart(_)
TrimStart(s) ==
    IF s = <<>> THEN <<>>
    ELSE IF Head(s) \in WhitespaceChars THEN TrimStart(Tail(s))
    ELSE s

RECURSIVE TrimEnd(_)
TrimEnd(s) ==
    IF s = <<>> THEN <<>>
    ELSE IF s[Len(s)] \in WhitespaceChars THEN TrimEnd(SubSeq(s, 1, Len(s) - 1))
    ELSE s

\* String.prototype.trim
Trim(s) == TrimEnd(TrimStart(s))

\* JavaScript truthiness of a string
Truthy(s) == s # <<>>

Digit(d) == CASE d = 0 -> "0" [] d = 1 -> "1" [] d = 2 -> "2" [] d = 3 -> "3"
              [] d = 4 -> "4" [] d = 5 -> "5" [] d = 6 -> "6" [] d = 7 -> "7"
              [] d = 8 -> "8" [] d = 9 -> "9"

\* Number.prototype.toString for a natural number
RECURSIVE NumberToString(_)
NumberToString(n) ==
    IF n < 10 THEN <<Digit(n)>>
    ELSE Append(NumberToString(n \div 10), Digit(n % 10))

(***************************************************************************)
(* services/api: errors and apiUtils.getErrorMessage                       *)
(***************************************************************************)
\* an absent (undefined) string property
Undefined == "<undefined>"
\* an absent response status
NoStatus == 0

MsgNotFound == "The requested resource was not found."
MsgServer == "Server error occurred. Please try again later."
MsgTimeout == "Request timed out. Please check your connection."
MsgNetwork == "Network error. Please check your internet connection."
MsgGeneric == "An unexpected error occurred. Please try again."

\* A thrown value: null, undefined or an object.  An object may be flagged
\* isAxiosError, may have a code, and may have a response with a status and
\* a data.message.
ErrorCodes == {Undefined, "ECONNABORTED", "ERR_NETWORK", "ERR_BAD_REQUEST"}
ErrorStatuses == {NoStatus, 400, 404, 500}
ErrorMessages == {Undefined, "", "Custom API error message"}

NoResponse == [present |-> FALSE, status |-> NoStatus, message |-> Undefined]

ErrorResponses ==
    {NoResponse} \cup [present : {TRUE}, status : ErrorStatuses, message : ErrorMessages]

ErrorValues ==
    [kind : {"null", "undefined"}, isAxiosError : {FALSE}, code : {Undefined},
     response : {NoResponse}]
    \cup [kind : {"object"}, isAxiosError : BOOLEAN, code : ErrorCodes,
          response : ErrorResponses]

\* axios.isAxiosError
IsAxiosError(e) == e.kind = "object" /\ e.isAxiosError

\* error.response?.status
ResponseStatus(e) == IF e.response.present THEN e.response.status ELSE NoStatus

\* error.response?.data?.message
ResponseMessage(e) == IF e.response.present THEN e.response.message ELSE Undefined

\* truthiness of an optional opaque string
TruthyText(t) == t # Undefined /\ t # ""

\* as getErrorMessage, but a message of the response is looked at first
getErrorMessageMessageFirst(e) ==
    IF IsAxiosError(e)
    THEN IF TruthyText(ResponseMessage(e)) THEN ResponseMessage(e)
         ELSE IF ResponseStatus(e) = 404 THEN MsgNotFound
         ELSE IF ResponseStatus(e) = 500 THEN MsgServer
         ELSE IF e.code = "ECONNABORTED" THEN MsgTimeout
         ELSE IF e.code = "ERR_NETWORK" THEN MsgNetwork
         ELSE MsgGeneric
    ELSE MsgGeneric

\* as getErrorMessage, but any message the response carries is returned,
\* an empty one too
getErrorMessageAnyMessage(e) ==
    IF IsAxiosError(e)
    THEN IF ResponseStatus(e) = 404 THEN MsgNotFound
         ELSE IF ResponseStatus(e) = 500 THEN MsgServer
         ELSE IF e.code = "ECONNABORTED" THEN MsgTimeout
         ELSE IF e.code = "ERR_NETWORK" THEN MsgNetwork
         ELSE IF ResponseMessage(e) # Undefined THEN ResponseMessage(e)
         ELSE MsgGeneric
    ELSE MsgGeneric

\* as getErrorMessage, but a message of the response is looked at before the
\* error code
getErrorMessageMessageBeforeCode(e) ==
    IF IsAxiosError(e)
    THEN IF ResponseStatus(e) = 404 THEN MsgNotFound
         ELSE IF ResponseStatus(e) = 500 THEN MsgServer
         ELSE IF TruthyText(ResponseMessage(e)) THEN ResponseMessage(e)
         ELSE IF e.code = "ECONNABORTED" THEN MsgTimeout
         ELSE IF e.code = "ERR_NETWORK" THEN MsgNetwork
         ELSE MsgGeneric
    ELSE MsgGeneric

getErrorMessage(e) ==
    IF IsAxiosError(e)
    THEN IF ResponseStatus(e) = 404 THEN MsgNotFound
         ELSE IF ResponseStatus(e) = 500 THEN MsgServer
         ELSE IF e.code = "ECONNABORTED" THEN MsgTimeout
         ELSE IF e.code = "ERR_NETWORK" THEN MsgNetwork
         ELSE IF TruthyText(ResponseMessage(e)) THEN ResponseMessage(e)
         ELSE MsgGeneric
    ELSE MsgGeneric

(***************************************************************************)
(* services/api: products                                                  *)
(***************************************************************************)
BackendProduct1 ==
    [id |-> 1, name |-> "Wireless Headphones", description |-> "Noise cancelling",
     price |-> 99, category |-> "Electronics", imageUrl |-> "headphones.jpg",
     ai_explanation |-> Undefined]

BackendProduct2 ==
    [id |-> 12, name |-> "Gaming Laptop", description |-> "RTX graphics",
     price |-> 1299, category |-> "Electronics", imageUrl |-> "laptop.jpg",
     ai_explanation |-> "Perfect for gaming"]

\* the product lists the backend answers with
BackendLists == {<<>>, <<BackendProduct1, BackendProduct2>>}

\* as transformProduct, but ai_explanation is not carried over
transformProductWithoutExplanation(backendProduct) ==
    [id |-> NumberToString(backendProduct.id),
     name |-> backendProduct.name,
     price |-> backendProduct.price,
     description |-> backendProduct.description,
     image |-> backendProduct.imageUrl,
     currency |-> "USD",
     aiExplanation |-> Undefined]

transformProduct(backendProduct) ==
    [id |-> NumberToString(backendProduct.id),
     name |-> backendProduct.name,
     price |-> backendProduct.price,
     description |-> backendProduct.description,
     image |-> backendProduct.imageUrl,
     currency |-> "USD",
     aiExplanation |-> backendProduct.ai_explanation]

\* Array.prototype.map(transformProduct)
MapTransform(list) == [i \in 1..Len(list) |-> transformProduct(list[i])]

(***************************************************************************)
(* State                                                                   *)
(***************************************************************************)
VARIABLES
    \* App
    mounted,                \* the mount effect has run
    products,               \* useState<Product[]>([])
    isLoading,              \* useState(true)
    isFilteringOrSorting,   \* useState(false)
    error,                  \* useState<string | null>(null)
    searchQuery,            \* useState('')
    currentTab,             \* useState(0)
    filters,                \* useState<SearchFilters>({})
    sortBy,                 \* useState('relevance')
    inflight,               \* product requests awaiting their response, in issue order
    latest,                 \* outcome of the most recently issued product request
    \* SearchBar rendered on its own, with a recording onSearch
    query,                  \* useState('')
    focused,                \* useState(false)
    blurTimers,             \* pending setTimeout(() => setFocused(false), 200)
    onSearchCalls,          \* arguments of the onSearch calls so far
    \* apiUtils.getErrorMessage applied to one thrown value
    thrown,                 \* the value passed to getErrorMessage
    message,                \* the string it returned
    \* apiUtils.healthCheck called once
    healthOutcome,          \* how GET /health ends
    healthPhase,            \* "idle", "pending", "returned" or "threw"
    healthResult,           \* the boolean healthCheck resolved with
    \* one product-list function of productApi called once
    apiFunction,            \* the function called
    backendList,            \* the BackendProduct[] of the response body
    apiReturned,            \* the call has resolved
    apiResult,              \* the Product[] it resolved with
    \* AuthProvider
    authMounted,            \* the mount effect has run
    authState,              \* useReducer(authReducer, initialState)
    authInflight,           \* auth requests awaiting their response, in issue order
    authCall,               \* the promise of the context call that settled last:
                            \* "resolved" or "rejected"
    loggedOut,              \* a logout has completed and no later sign-in has succeeded
    \* UserMenu
    showLoginForm,          \* useState(false): open of the login dialog
    showRegisterForm,       \* useState(false): open of the register dialog
    \* SearchHistory
    historyMounted,         \* the component is mounted
    historyData,            \* useState<SearchHistoryItem[]>([])
    historyLoading,         \* useState(true)
    historyError,           \* useState<string | null>(null)
    page,                   \* useState(1)
    totalPages,             \* useState(1)
    historyFilters,         \* useState<SearchHistoryOptions>({ limit: 10, successOnly: false })
                            \* with query, undefined while absent
    showFilters,            \* useState(false)
    historyInflight,        \* getHistory requests awaiting their response, in issue order
    \* PopularSearches
    popularMounted,         \* PopularSearches is mounted
    popularSearches,        \* useState<PopularSearchItem[]>([])
    popularLoading,         \* useState(true)
    popularError,           \* useState<string | null>(null)
    period,                 \* useState(30)
    limit,                  \* useState(maxItems)
    popularInflight,        \* getPopularSearches requests awaiting their response
    \* LoginForm and RegisterForm, mounted by UserMenu
    loginFormData,          \* LoginForm: useState<LoginData>({ username: '', password: '' })
    loginLocalError,        \* LoginForm: useState<string | null>(null)
    registerFormData,       \* RegisterForm: useState<RegisterData>({ username: '', ... })
    confirmPassword,        \* RegisterForm: useState('')
    registerLocalError,     \* RegisterForm: useState<string | null>(null)
    \* what an observer of App has seen
    lastOp,                 \* the last step the user took: "none", "search", "filters",
                            \* "sort", "clear" or "reset"
    wanted,                 \* the filters and the sort order the user selected last
    shown,                  \* the options of the request whose response filled products
    failedSince             \* a product request has failed since the user's last step

appVars == <<mounted, products, isLoading, isFilteringOrSorting, error, searchQuery,
             currentTab, filters, sortBy, inflight, latest>>
sbVars == <<query, focused, blurTimers, onSearchCalls>>
gemVars == <<thrown, message>>
hcVars == <<healthOutcome, healthPhase, healthResult>>
paVars == <<apiFunction, backendList, apiReturned, apiResult>>
authVars == <<authMounted, authState, authInflight, authCall, loggedOut>>
menuVars == <<showLoginForm, showRegisterForm>>
shVars == <<historyMounted, historyData, historyLoading, historyError, page, totalPages,
            historyFilters, showFilters, historyInflight>>
psVars == <<popularMounted, popularSearches, popularLoading, popularError, period, limit,
            popularInflight>>
formVars == <<loginFormData, loginLocalError, registerFormData, confirmPassword,
              registerLocalError>>
obsVars == <<lastOp, wanted, shown, failedSince>>
vars == <<appVars, sbVars, gemVars, hcVars, paVars, authVars, menuVars, shVars, psVars, formVars,
          obsVars>>

\* error === null
Null == "<null>"
\* message before getErrorMessage has returned
NotReturned == "<not returned>"

(***************************************************************************)
(* services/api: apiUtils.healthCheck                                      *)
(***************************************************************************)
\* the reason of a request that was not rejected
NoReason == [kind |-> "undefined", isAxiosError |-> FALSE, code |-> Undefined,
             response |-> NoResponse]

\* GET /health resolves, or is rejected with some value
HealthOutcomes ==
    {[ok |-> TRUE, reason |-> NoReason]} \cup [ok : {FALSE}, reason : ErrorValues]

\* healthCheck has not been called
HealthCheckNotCalled ==
    /\ healthOutcome = [ok |-> TRUE, reason |-> NoReason]
    /\ healthPhase = "idle"
    /\ healthResult = FALSE

(***************************************************************************)
(* services/api: the product-list functions of productApi                  *)
(***************************************************************************)
ApiFunctions ==
    {"getAllProducts", "searchProducts", "aiSearch", "getProductsByCategory",
     "getFeaturedProducts"}

BackendProducts == {BackendProduct1, BackendProduct2}

RECURSIVE ListsUpTo(_)
ListsUpTo(n) ==
    IF n = 0 THEN {<<>>}
    ELSE LET shorter == ListsUpTo(n - 1)
         IN  shorter \cup {Append(l, p) : l \in {m \in shorter : Len(m) = n - 1},
                                          p \in BackendProducts}

\* the BackendProduct[] a response body carries
ApiBackendLists == ListsUpTo(MaxProducts)

\* response.data of the endpoint a function calls: SearchResponse carries the
\* list as results, BackendResponse as data
ResponseBody(fn, list) ==
    IF fn = "aiSearch"
    THEN [shape |-> "SearchResponse", results |-> list]
    ELSE [shape |-> "BackendResponse", data |-> list]

\* no function of productApi has been called
ProductApiNotCalled ==
    /\ apiFunction = "getAllProducts"
    /\ backendList = <<>>
    /\ apiReturned = FALSE
    /\ apiResult = <<>>

(***************************************************************************)
(* context/AuthContext: state and reducer                                  *)
(***************************************************************************)
\* user === null
NoUser == [id |-> 0, username |-> Null, theme |-> Null]
\* the user the backend knows, with preferences.theme
UserAlice == [id |-> 1, username |-> "alice", theme |-> "light"]

initialState ==
    [user |-> NoUser, isAuthenticated |-> FALSE, isLoading |-> TRUE, error |-> Null]

\* the actions dispatched
SET_LOADING(payload) ==
    [type |-> "SET_LOADING", loading |-> payload, user |-> NoUser, error |-> Null]
SET_USER(payload) ==
    [type |-> "SET_USER", loading |-> FALSE, user |-> payload, error |-> Null]
SET_ERROR(payload) ==
    [type |-> "SET_ERROR", loading |-> FALSE, user |-> NoUser, error |-> payload]
LOGOUT == [type |-> "LOGOUT", loading |-> FALSE, user |-> NoUser, error |-> Null]

\* as authReducer, but SET_USER sets isAuthenticated to true whatever the payload
authReducerAlwaysAuthenticated(state, action) ==
    CASE action.type = "SET_LOADING" -> [state EXCEPT !.isLoading = action.loading]
      [] action.type = "SET_USER" ->
             [state EXCEPT !.user = action.user,
                           !.isAuthenticated = TRUE,
                           !.isLoading = FALSE,
                           !.error = Null]
      [] action.type = "SET_ERROR" ->
             [state EXCEPT !.error = action.error, !.isLoading = FALSE]
      [] action.type = "LOGOUT" ->
             [state EXCEPT !.user = NoUser,
                           !.isAuthenticated = FALSE,
                           !.isLoading = FALSE,
                           !.error = Null]
      [] OTHER -> state

authReducer(state, action) ==
    CASE action.type = "SET_LOADING" -> [state EXCEPT !.isLoading = action.loading]
      [] action.type = "SET_USER" ->
             [state EXCEPT !.user = action.user,
                           !.isAuthenticated = (action.user # NoUser),
                           !.isLoading = FALSE,
                           !.error = Null]
      [] action.type = "SET_ERROR" ->
             [state EXCEPT !.error = action.error, !.isLoading = FALSE]
      [] action.type = "LOGOUT" ->
             [state EXCEPT !.user = NoUser,
                           !.isAuthenticated = FALSE,
                           !.isLoading = FALSE,
                           !.error = Null]
      [] OTHER -> state

\* no context call has settled yet
NoCall == "none"

\* AuthProvider before its mount effect
AuthNotMounted ==
    /\ authMounted = FALSE
    /\ authState = initialState
    /\ authInflight = <<>>
    /\ authCall = NoCall
    /\ loggedOut = FALSE
    /\ showLoginForm = FALSE
    /\ showRegisterForm = FALSE

(***************************************************************************)
(* App: filters, sort orders, queries                                      *)
(***************************************************************************)
\* an absent price key
NoPrice == -1

\* SearchFilters; an absent key holds Undefined / NoPrice
EmptyFilters == [category |-> Undefined, brand |-> Undefined,
                 minPrice |-> NoPrice, maxPrice |-> NoPrice]

\* the values the model enters in the filter controls
CategoryInputs == {"", "Electronics"}

\* the sort orders the model selects
SortInputs == {"relevance", "price_asc"}

\* FilterAndSort.handleFilterChange builds newFilters from the filters prop
WithCategory(f, value) ==
    IF value = "" \/ value = Undefined THEN [f EXCEPT !.category = Undefined]
    ELSE [f EXCEPT !.category = value]

\* FilterAndSort.getActiveFilterCount
getActiveFilterCount(f) ==
    (IF f.category # Undefined /\ f.category # "" THEN 1 ELSE 0)
    + (IF f.brand # Undefined /\ f.brand # "" THEN 1 ELSE 0)
    + (IF f.minPrice # NoPrice THEN 1 ELSE 0)
    + (IF f.maxPrice # NoPrice THEN 1 ELSE 0)

\* the quick examples of the hero section
Examples == {<<"L", "a", "p", "t", "o", "p">>,
             <<"S", "h", "o", "e", "s">>,
             <<"C", "o", "f", "f", "e", "e", " ", "m", "a", "k", "e", "r">>,
             <<"H", "e", "a", "d", "p", "h", "o", "n", "e", "s">>}

\* SearchBar: suggestions.slice(0, 4)
Suggestions ==
    {<<"N", "i", "k", "e", " ", "r", "u", "n", "n", "i", "n", "g", " ", "s", "h", "o", "e", "s", " ", "f", "o", "r", " ", "w", "o", "m", "e", "n">>,
     <<"M", "a", "c", "B", "o", "o", "k", " ", "P", "r", "o", " ", "1", "4", " ", "i", "n", "c", "h", " ", "f", "o", "r", " ", "v", "i", "d", "e", "o", " ", "e", "d", "i", "t", "i", "n", "g">>,
     <<"B", "l", "u", "e", "t", "o", "o", "t", "h", " ", "h", "e", "a", "d", "p", "h", "o", "n", "e", "s", " ", "u", "n", "d", "e", "r", " ", "$", "2", "0", "0">>,
     <<"K", "i", "t", "c", "h", "e", "n", " ", "c", "o", "f", "f", "e", "e", " ", "m", "a", "k", "e", "r", " ", "w", "i", "t", "h", " ", "t", "i", "m", "e", "r">>}

\* the example and the suggestion the model clicks
ExampleInputs == {<<"C", "o", "f", "f", "e", "e", " ", "m", "a", "k", "e", "r">>}
SuggestionInputs == {<<"N", "i", "k", "e", " ", "r", "u", "n", "n", "i", "n", "g", " ", "s", "h", "o", "e", "s", " ", "f", "o", "r", " ", "w", "o", "m", "e", "n">>}

\* item.query of the entries the backend lists as search history / popular searches
ListedQueries == {<<>>, <<" ">>}

\* the failures a product request ends with: HTTP 500, and a TypeError thrown
\* while reading a malformed response body
RequestErrors ==
    {[kind |-> "object", isAxiosError |-> TRUE, code |-> "ERR_BAD_REQUEST",
      response |-> [present |-> TRUE, status |-> 500, message |-> "Custom API error message"]],
     [kind |-> "object", isAxiosError |-> FALSE, code |-> Undefined, response |-> NoResponse]}

\* SearchOptions.page and .limit of handleSearch
SearchPage == 1
SearchLimit == 50
\* page / limit of a request that carries none
NoPaging == 0

\* an optional argument
Given(v) == [given |-> TRUE, value |-> v]
NotGivenFilters == [given |-> FALSE, value |-> EmptyFilters]
NotGivenSort == [given |-> FALSE, value |-> "relevance"]

\* newFilters || filters, newSortBy || sortBy
OrElse(opt, current) == IF opt.given THEN opt.value ELSE current

\* the call productApi.getAllProducts(applyFilters, applySortBy) of fetchAllProducts
AllProductsRequest(applyFilters, applySortBy) ==
    [api |-> "getAllProducts", query |-> <<>>,
     filters |-> applyFilters, sortBy |-> applySortBy,
     page |-> NoPaging, limit |-> NoPaging,
     newFilters |-> NotGivenFilters, newSortBy |-> NotGivenSort,
     isFilterOperation |-> FALSE]

\* as SearchRequest, but with newFilters || {} for newFilters || filters
SearchRequestDefaultFilters(q, newFilters, newSortBy, isFilterOperation) ==
    [api |-> "aiSearch", query |-> q,
     filters |-> Given(OrElse(newFilters, EmptyFilters)),
     sortBy |-> Given(OrElse(newSortBy, sortBy)),
     page |-> SearchPage, limit |-> SearchLimit,
     newFilters |-> newFilters, newSortBy |-> newSortBy,
     isFilterOperation |-> isFilterOperation]

\* the call productApi.aiSearch(searchOptions) of handleSearch, with the
\* arguments its continuation uses after the response
SearchRequest(q, newFilters, newSortBy, isFilterOperation) ==
    [api |-> "aiSearch", query |-> q,
     filters |-> Given(OrElse(newFilters, filters)),
     sortBy |-> Given(OrElse(newSortBy, sortBy)),
     page |-> SearchPage, limit |-> SearchLimit,
     newFilters |-> newFilters, newSortBy |-> newSortBy,
     isFilterOperation |-> isFilterOperation]

Pending == [status |-> "pending", products |-> <<>>]

\* the main layout (everything but the loading screen) is rendered
LayoutRendered == mounted /\ ~isLoading

(***************************************************************************)
(* SearchHistory and PopularSearches, the components of the history and    *)
(* popular tabs                                                            *)
(***************************************************************************)
\* the sequence without its i-th element
RemoveAt(seq, i) == SubSeq(seq, 1, i - 1) \o SubSeq(seq, i + 1, Len(seq))

\* SearchHistoryOptions.limit of the initial filters
HistoryLimit == 10

\* useState<SearchHistoryOptions>({ limit: 10, successOnly: false })
\* (filters.query is absent, which reads as undefined)
DefaultHistoryFilters == [limit |-> HistoryLimit, successOnly |-> FALSE, query |-> Undefined]

\* SearchHistory before it is mounted
SearchHistoryNotMounted ==
    /\ historyMounted = FALSE
    /\ historyData = <<>>
    /\ historyLoading = TRUE
    /\ historyError = Null
    /\ page = 1
    /\ totalPages = 1
    /\ historyFilters = DefaultHistoryFilters
    /\ showFilters = FALSE
    /\ historyInflight = <<>>

\* the getHistory requests that may be in flight together
MaxHistoryInFlight == 2

\* response.data of GET /search/history
HistoryLists == {<<>>, <<[id |-> 1, query |-> "laptop", success |-> TRUE]>>}

\* the SearchHistoryResponse a request is answered with: data and pagination.totalPages
HistoryResponses == [data : HistoryLists, totalPages : {1, 2}]

\* searchHistoryApi.getHistory({ ...filters, page }): the parameters of the
\* GET request, where successOnly false and query undefined stand for a
\* parameter that is left out
HistoryRequest(p, f) ==
    [page |-> p, limit |-> f.limit, successOnly |-> f.successOnly, query |-> f.query]

\* fetchHistory up to its await, once for every request of the sequence
IssueHistory(requests) ==
    /\ Len(historyInflight) + Len(requests) <= MaxHistoryInFlight
    /\ IF requests # <<>>
       THEN /\ historyLoading' = TRUE
            /\ historyError' = Null
            /\ historyInflight' = historyInflight \o requests
       ELSE UNCHANGED <<historyLoading, historyError, historyInflight>>

\* what the effect on [authState.isAuthenticated, authState.user] does
AuthEffect(auth) ==
    IF auth.isAuthenticated /\ auth.user # NoUser /\ ~auth.isLoading THEN "fetch"
    ELSE IF ~auth.isAuthenticated /\ ~auth.isLoading THEN "clear"
    ELSE "none"

\* the list is rendered, not the skeleton of (loading && historyData.length === 0)
HistoryRendered == historyMounted /\ ~(historyLoading /\ historyData = <<>>)

\* SearchHistory mounts: the effect on [page, filters] and the effect on
\* [authState.isAuthenticated, authState.user] both run
SearchHistoryMounts ==
    /\ historyMounted' = TRUE
    /\ LET effect == AuthEffect(authState)
       IN  /\ IssueHistory(IF effect = "fetch"
                           THEN <<HistoryRequest(page, historyFilters),
                                  HistoryRequest(page, historyFilters)>>
                           ELSE <<HistoryRequest(page, historyFilters)>>)
           /\ IF effect = "clear"
              THEN historyData' = <<>> /\ page' = 1 /\ totalPages' = 1
              ELSE UNCHANGED <<historyData, page, totalPages>>
    /\ UNCHANGED <<historyFilters, showFilters>>

\* SearchHistory unmounts: the component and its state are gone, and the
\* responses still to come are ignored
SearchHistoryUnmounts ==
    /\ historyMounted' = FALSE
    /\ historyData' = <<>>
    /\ historyLoading' = TRUE
    /\ historyError' = Null
    /\ page' = 1
    /\ totalPages' = 1
    /\ historyFilters' = DefaultHistoryFilters
    /\ showFilters' = FALSE
    /\ historyInflight' = <<>>

\* SearchHistory is rendered on its own
HistoryMount ==
    /\ ~historyMounted
    /\ SearchHistoryMounts
    /\ UNCHANGED <<appVars, sbVars, gemVars, hcVars, paVars,
                   authVars, formVars, obsVars, menuVars, psVars>>

\* SearchHistory rendered on its own is unmounted
HistoryUnmount ==
    /\ historyMounted
    /\ SearchHistoryUnmounts
    /\ UNCHANGED <<appVars, sbVars, gemVars, hcVars, paVars,
                   authVars, formVars, obsVars, menuVars, psVars>>

\* the Refresh button: onClick={fetchHistory}
fetchHistory ==
    /\ HistoryRendered
    /\ IssueHistory(<<HistoryRequest(page, historyFilters)>>)
    /\ UNCHANGED <<historyMounted, historyData, page, totalPages, historyFilters, showFilters>>
    /\ UNCHANGED <<appVars, sbVars, gemVars, hcVars, paVars,
                   authVars, formVars, obsVars, menuVars, psVars>>

\* the Pagination below the list
handlePageChange(value) ==
    /\ HistoryRendered
    /\ totalPages > 1
    /\ value \in 1..totalPages
    /\ value # page
    /\ page' = value
    /\ IssueHistory(<<HistoryRequest(value, historyFilters)>>)
    /\ UNCHANGED <<historyMounted, historyData, totalPages, historyFilters, showFilters>>
    /\ UNCHANGED <<appVars, sbVars, gemVars, hcVars, paVars,
                   authVars, formVars, obsVars, menuVars, psVars>>

\* the Filters button: setShowFilters(!showFilters)
setShowFilters ==
    /\ HistoryRendered
    /\ showFilters' = ~showFilters
    /\ UNCHANGED <<historyMounted, historyData, historyLoading, historyError, page,
                   totalPages, historyFilters, historyInflight>>
    /\ UNCHANGED <<appVars, sbVars, gemVars, hcVars, paVars,
                   authVars, formVars, obsVars, menuVars, psVars>>

\* handleFilterChange(newFilters): setFilters(prev => ({ ...prev, ...newFilters }))
\* and setPage(1), then the effect on [page, filters]
handleFilterChange(newFilters) ==
    /\ historyFilters' =
           [limit |-> IF "limit" \in DOMAIN newFilters THEN newFilters.limit
                      ELSE historyFilters.limit,
            successOnly |-> IF "successOnly" \in DOMAIN newFilters THEN newFilters.successOnly
                            ELSE historyFilters.successOnly,
            query |-> IF "query" \in DOMAIN newFilters THEN newFilters.query
                      ELSE historyFilters.query]
    /\ page' = 1
    /\ IssueHistory(<<HistoryRequest(1, historyFilters')>>)
    /\ UNCHANGED <<historyMounted, historyData, totalPages, showFilters>>
    /\ UNCHANGED <<appVars, sbVars, gemVars, hcVars, paVars,
                   authVars, formVars, obsVars, menuVars, psVars>>

\* the TextField "Search in history", value={filters.query || ''}:
\* handleFilterChange({ query: e.target.value || undefined })
SearchInHistoryChange(value) ==
    /\ HistoryRendered
    /\ showFilters
    /\ value # (IF historyFilters.query = Undefined THEN "" ELSE historyFilters.query)
    /\ handleFilterChange([query |-> IF value = "" THEN Undefined ELSE value])

\* the Select "Items per page", value={filters.limit || 10}:
\* handleFilterChange({ limit: Number(e.target.value) })
ItemsPerPageChange(value) ==
    /\ HistoryRendered
    /\ showFilters
    /\ value # historyFilters.limit
    /\ handleFilterChange([limit |-> value])

\* the Switch "Successful only": handleFilterChange({ successOnly: e.target.checked })
SuccessfulOnlyChange(checked) ==
    /\ HistoryRendered
    /\ showFilters
    /\ checked # historyFilters.successOnly
    /\ handleFilterChange([successOnly |-> checked])

\* the Clear button of the filters panel
clearFilters ==
    /\ HistoryRendered
    /\ showFilters
    /\ historyFilters' = DefaultHistoryFilters
    /\ page' = 1
    /\ IssueHistory(<<HistoryRequest(1, DefaultHistoryFilters)>>)
    /\ UNCHANGED <<historyMounted, historyData, totalPages, showFilters>>
    /\ UNCHANGED <<appVars, sbVars, gemVars, hcVars, paVars,
                   authVars, formVars, obsVars, menuVars, psVars>>

\* the i-th request is answered: the code after the await, then finally
HistoryResponds(i, response) ==
    /\ i \in 1..Len(historyInflight)
    /\ historyData' = response.data
    /\ totalPages' = response.totalPages
    /\ historyLoading' = FALSE
    /\ historyInflight' = RemoveAt(historyInflight, i)
    /\ UNCHANGED <<historyMounted, historyError, page, historyFilters, showFilters>>
    /\ UNCHANGED <<appVars, sbVars, gemVars, hcVars, paVars,
                   authVars, formVars, obsVars, menuVars, psVars>>

\* the i-th request fails: the catch block, then finally
HistoryFails(i) ==
    /\ i \in 1..Len(historyInflight)
    /\ historyError' = "Failed to load search history"
    /\ historyLoading' = FALSE
    /\ historyInflight' = RemoveAt(historyInflight, i)
    /\ UNCHANGED <<historyMounted, historyData, page, totalPages, historyFilters, showFilters>>
    /\ UNCHANGED <<appVars, sbVars, gemVars, hcVars, paVars,
                   authVars, formVars, obsVars, menuVars, psVars>>

\* PopularSearches: maxItems = 10, useState(30) for period, useState(maxItems) for limit
PopularLimit == 10
PopularPeriod == 30

\* the Show More button: setLimit(Math.min(limit + 10, 50))
PopularLimitStep == 10
PopularLimitCap == 50

\* the MenuItems of the Selects "Time Period" and "Show"
PeriodOptions == {7, 30, 90}
LimitOptions == {5, 10, 15, 20}

\* searchHistoryApi.getPopularSearches(limit, period): GET /search/popular?limit=..&days=..
PopularRequest(count, days) == [limit |-> count, days |-> days]

\* response.data of GET /search/popular
PopularLists ==
    {<<>>} \cup {<<[query |-> q, searchCount |-> "1"]>> : q \in ListedQueries}

\* PopularSearches before it is mounted
PopularSearchesNotMounted ==
    /\ popularMounted = FALSE
    /\ popularSearches = <<>>
    /\ popularLoading = TRUE
    /\ popularError = Null
    /\ period = PopularPeriod
    /\ limit = PopularLimit
    /\ popularInflight = <<>>

\* fetchPopularSearches up to its await, with the period and the limit of
\* the render that calls it
FetchPopularStart(count, days) ==
    /\ popularLoading' = TRUE
    /\ popularError' = Null
    /\ popularInflight' = Append(popularInflight, PopularRequest(count, days))
    /\ UNCHANGED popularSearches

\* PopularSearches mounts: the effect on [period, limit] calls
\* fetchPopularSearches, which runs up to its await
PopularSearchesMounts ==
    /\ popularMounted' = TRUE
    /\ FetchPopularStart(limit, period)
    /\ UNCHANGED <<period, limit>>

\* PopularSearches unmounts: its state is gone, and the responses still to
\* come are ignored
PopularSearchesUnmounts ==
    /\ popularMounted' = FALSE
    /\ popularSearches' = <<>>
    /\ popularLoading' = TRUE
    /\ popularError' = Null
    /\ period' = PopularPeriod
    /\ limit' = PopularLimit
    /\ popularInflight' = <<>>

\* PopularSearches rendered on its own is mounted
PopularMount ==
    /\ ~popularMounted
    /\ PopularSearchesMounts
    /\ UNCHANGED <<appVars, sbVars, gemVars, hcVars, paVars,
                   authVars, shVars, formVars, obsVars, menuVars>>

\* PopularSearches rendered on its own is unmounted
PopularUnmount ==
    /\ popularMounted
    /\ PopularSearchesUnmounts
    /\ UNCHANGED <<appVars, sbVars, gemVars, hcVars, paVars,
                   authVars, shVars, formVars, obsVars, menuVars>>

\* the card of PopularSearches with its controls and its list is rendered,
\* not the skeleton of if (loading)
PopularRendered == popularMounted /\ ~popularLoading

\* the Refresh button: onClick={fetchPopularSearches}
fetchPopularSearches ==
    /\ PopularRendered
    /\ FetchPopularStart(limit, period)
    /\ UNCHANGED <<popularMounted, period, limit>>
    /\ UNCHANGED <<appVars, sbVars, gemVars, hcVars, paVars,
                   authVars, shVars, formVars, obsVars, menuVars>>

\* the Select "Time Period": setPeriod(Number(e.target.value)); the effect on
\* [period, limit] runs when the period has changed
setPeriod(value) ==
    /\ PopularRendered
    /\ period' = value
    /\ IF value # period
       THEN FetchPopularStart(limit, value)
       ELSE UNCHANGED <<popularSearches, popularLoading, popularError, popularInflight>>
    /\ UNCHANGED <<popularMounted, limit>>
    /\ UNCHANGED <<appVars, sbVars, gemVars, hcVars, paVars,
                   authVars, shVars, formVars, obsVars, menuVars>>

\* the Select "Show": setLimit(Number(e.target.value)); the effect on
\* [period, limit] runs when the limit has changed
setLimit(value) ==
    /\ PopularRendered
    /\ limit' = value
    /\ IF value # limit
       THEN FetchPopularStart(value, period)
       ELSE UNCHANGED <<popularSearches, popularLoading, popularError, popularInflight>>
    /\ UNCHANGED <<popularMounted, period>>
    /\ UNCHANGED <<appVars, sbVars, gemVars, hcVars, paVars,
                   authVars, shVars, formVars, obsVars, menuVars>>

\* Math.min(a, b)
Min(a, b) == IF a < b THEN a ELSE b

\* the Show More button, rendered when the list is as long as the limit:
\* onClick={() => setLimit(Math.min(limit + 10, 50))}
ShowMoreClick ==
    /\ Len(popularSearches) > 0
    /\ Len(popularSearches) = limit
    /\ setLimit(Min(limit + PopularLimitStep, PopularLimitCap))

\* the i-th request is answered: the code after the await, then finally
PopularResponds(i, data) ==
    /\ i \in 1..Len(popularInflight)
    /\ popularSearches' = data
    /\ popularLoading' = FALSE
    /\ popularInflight' = RemoveAt(popularInflight, i)
    /\ UNCHANGED <<popularMounted, popularError, period, limit>>
    /\ UNCHANGED <<appVars, sbVars, gemVars, hcVars, paVars, authVars, shVars, formVars,
                   obsVars, menuVars>>

\* the i-th request fails: the catch block, then finally
PopularFails(i) ==
    /\ i \in 1..Len(popularInflight)
    /\ popularError' = "Failed to load popular searches"
    /\ popularLoading' = FALSE
    /\ popularInflight' = RemoveAt(popularInflight, i)
    /\ UNCHANGED <<popularMounted, popularSearches, period, limit>>
    /\ UNCHANGED <<appVars, sbVars, gemVars, hcVars, paVars, authVars, shVars, formVars,
                   obsVars, menuVars>>

\* what the tab panels of App hold: App returns the loading screen while
\* isLoading, and a TabPanel renders its children only when value === index
PanelShown(loading, tab) ==
    IF loading THEN "none"
    ELSE IF tab = 1 THEN "SearchHistory"
    ELSE IF tab = 2 THEN "PopularSearches"
    ELSE "none"

\* the render that follows a step of App mounts SearchHistory when its panel
\* appears and unmounts it when the panel goes
SearchHistoryFollows ==
    LET before == PanelShown(isLoading, currentTab)
        after == PanelShown(isLoading', currentTab')
    IN  IF before # "SearchHistory" /\ after = "SearchHistory" THEN SearchHistoryMounts
        ELSE IF before = "SearchHistory" /\ after # "SearchHistory" THEN SearchHistoryUnmounts
        ELSE UNCHANGED shVars

\* the same for PopularSearches
PopularSearchesFollows ==
    LET before == PanelShown(isLoading, currentTab)
        after == PanelShown(isLoading', currentTab')
    IN  IF before # "PopularSearches" /\ after = "PopularSearches" THEN PopularSearchesMounts
        ELSE IF before = "PopularSearches" /\ after # "PopularSearches"
             THEN PopularSearchesUnmounts
        ELSE UNCHANGED psVars

\* the commit of a step of App: the panels follow isLoading and currentTab
PanelsFollow == SearchHistoryFollows /\ PopularSearchesFollows

\* response.data of GET /search/history as App's history tab shows it
ListedHistory ==
    {<<>>} \cup {<<[id |-> 1, query |-> q, success |-> TRUE]>> : q \in ListedQueries}

\* the answers to the GET /search/history of the history tab
ListedHistoryResponses == [data : ListedHistory, totalPages : {1}]

\* the entry with query q is listed in the panel shown
EntryListed(q) ==
    \/ /\ currentTab = 1
       /\ HistoryRendered
       /\ \E k \in 1..Len(historyData) : historyData[k].query = q
    \/ /\ currentTab = 2
       /\ PopularRendered
       /\ \E k \in 1..Len(popularSearches) : popularSearches[k].query = q

(***************************************************************************)
(* App: operations                                                         *)
(***************************************************************************)
\* fetchAllProducts up to its await
FetchAllProductsStart(applyFilters, applySortBy) ==
    /\ Len(inflight) < MaxInFlight
    /\ isLoading' = TRUE
    /\ error' = Null
    /\ inflight' = Append(inflight, AllProductsRequest(applyFilters, applySortBy))
    /\ latest' = Pending

\* as HandleSearchStart, but without setError(null)
HandleSearchStartKeepingError(q, newFilters, newSortBy, isFilterOperation) ==
    /\ Len(inflight) < MaxInFlight
    /\ IF isFilterOperation
       THEN isFilteringOrSorting' = TRUE /\ UNCHANGED isLoading
       ELSE isLoading' = TRUE /\ UNCHANGED isFilteringOrSorting
    /\ UNCHANGED error
    /\ searchQuery' = q
    /\ inflight' = Append(inflight, SearchRequest(q, newFilters, newSortBy, isFilterOperation))
    /\ latest' = Pending

\* handleSearch up to its await
HandleSearchStart(q, newFilters, newSortBy, isFilterOperation) ==
    /\ Len(inflight) < MaxInFlight
    /\ IF isFilterOperation
       THEN isFilteringOrSorting' = TRUE /\ UNCHANGED isLoading
       ELSE isLoading' = TRUE /\ UNCHANGED isFilteringOrSorting
    /\ error' = Null
    /\ searchQuery' = q
    /\ inflight' = Append(inflight, SearchRequest(q, newFilters, newSortBy, isFilterOperation))
    /\ latest' = Pending

\* useEffect(() => { fetchAllProducts() }, [])
Mount ==
    /\ ~mounted
    /\ mounted' = TRUE
    /\ FetchAllProductsStart(NotGivenFilters, NotGivenSort)
    /\ UNCHANGED <<products, isFilteringOrSorting, searchQuery, currentTab, filters, sortBy>>
    /\ UNCHANGED <<sbVars, gemVars, hcVars, paVars, authVars, formVars, menuVars>>
    /\ PanelsFollow

\* a quick example of the hero section is clicked: handleSearch(example)
ExampleClick(example) ==
    /\ LayoutRendered
    /\ HandleSearchStart(example, NotGivenFilters, NotGivenSort, FALSE)
    /\ UNCHANGED <<mounted, products, currentTab, filters, sortBy>>
    /\ UNCHANGED <<sbVars, gemVars, hcVars, paVars, authVars, formVars, menuVars>>
    /\ PanelsFollow

\* the SearchBar of the search tab, holding the text typed, is submitted:
\* handleSubmit calls onSearch, which is (query) => handleSearch(query)
SearchSubmit(typed) ==
    /\ LayoutRendered
    /\ currentTab = 0
    /\ Truthy(Trim(typed))
    /\ HandleSearchStart(Trim(typed), NotGivenFilters, NotGivenSort, FALSE)
    /\ UNCHANGED <<mounted, products, currentTab, filters, sortBy>>
    /\ UNCHANGED <<sbVars, gemVars, hcVars, paVars, authVars, formVars, menuVars>>
    /\ PanelsFollow

\* a suggestion chip of the SearchBar of the search tab is clicked
SuggestionSearch(suggestion) ==
    /\ LayoutRendered
    /\ currentTab = 0
    /\ HandleSearchStart(suggestion, NotGivenFilters, NotGivenSort, FALSE)
    /\ UNCHANGED <<mounted, products, currentTab, filters, sortBy>>
    /\ UNCHANGED <<sbVars, gemVars, hcVars, paVars, authVars, formVars, menuVars>>
    /\ PanelsFollow

\* an entry of SearchHistory (tab 1) or PopularSearches (tab 2) is clicked:
\* handleSearchSelect(item.query) calls onSearchSelect
handleSearchFromHistory(q) ==
    /\ LayoutRendered
    /\ EntryListed(q)
    /\ currentTab' = 0
    /\ HandleSearchStart(q, NotGivenFilters, NotGivenSort, FALSE)
    /\ UNCHANGED <<mounted, products, filters, sortBy>>
    /\ UNCHANGED <<sbVars, gemVars, hcVars, paVars, authVars, formVars, menuVars>>
    /\ PanelsFollow

\* FilterAndSort is rendered on the search tab while searchQuery is truthy
FilterAndSortRendered == LayoutRendered /\ currentTab = 0 /\ Truthy(searchQuery)

handleFiltersChange(newFilters) ==
    /\ FilterAndSortRendered
    /\ filters' = newFilters
    /\ IF Truthy(searchQuery)
       THEN HandleSearchStart(searchQuery, Given(newFilters), Given(sortBy), TRUE)
       ELSE UNCHANGED <<isLoading, isFilteringOrSorting, error, searchQuery, inflight, latest>>
    /\ UNCHANGED <<mounted, products, currentTab, sortBy>>
    /\ UNCHANGED <<sbVars, gemVars, hcVars, paVars, authVars, formVars, menuVars>>
    /\ PanelsFollow

handleSortChange(newSortBy) ==
    /\ FilterAndSortRendered
    /\ sortBy' = newSortBy
    /\ IF Truthy(searchQuery)
       THEN HandleSearchStart(searchQuery, Given(filters), Given(newSortBy), TRUE)
       ELSE UNCHANGED <<isLoading, isFilteringOrSorting, error, searchQuery, inflight, latest>>
    /\ UNCHANGED <<mounted, products, currentTab, filters>>
    /\ UNCHANGED <<sbVars, gemVars, hcVars, paVars, authVars, formVars, menuVars>>
    /\ PanelsFollow

\* FilterAndSort.clearAllFilters: onFiltersChange({}) then onSortChange('relevance'),
\* both handlers of the same render
clearAllFilters ==
    /\ FilterAndSortRendered
    /\ getActiveFilterCount(filters) > 0 \/ sortBy # "relevance"
    /\ filters' = EmptyFilters
    /\ sortBy' = "relevance"
    /\ IF Truthy(searchQuery)
       THEN /\ Len(inflight) + 2 <= MaxInFlight
            /\ isFilteringOrSorting' = TRUE
            /\ error' = Null
            /\ searchQuery' = searchQuery
            /\ inflight' = inflight \o
                  <<SearchRequest(searchQuery, Given(EmptyFilters), Given(sortBy), TRUE),
                    SearchRequest(searchQuery, Given(filters), Given("relevance"), TRUE)>>
            /\ latest' = Pending
            /\ UNCHANGED isLoading
       ELSE UNCHANGED <<isLoading, isFilteringOrSorting, error, searchQuery, inflight, latest>>
    /\ UNCHANGED <<mounted, products, currentTab>>
    /\ UNCHANGED <<sbVars, gemVars, hcVars, paVars, authVars, formVars, menuVars>>
    /\ PanelsFollow

\* as resetSearch, but with fetchAllProducts(filters, sortBy)
resetSearchPassingFilters ==
    /\ LayoutRendered
    /\ currentTab = 0
    /\ Truthy(searchQuery)
    /\ searchQuery' = <<>>
    /\ filters' = EmptyFilters
    /\ sortBy' = "relevance"
    /\ FetchAllProductsStart(Given(filters), Given(sortBy))
    /\ UNCHANGED <<mounted, products, isFilteringOrSorting, currentTab>>
    /\ UNCHANGED <<sbVars, gemVars, hcVars, paVars, authVars, formVars, menuVars>>
    /\ PanelsFollow

\* "Clear search and show all products" of the search banner
resetSearch ==
    /\ LayoutRendered
    /\ currentTab = 0
    /\ Truthy(searchQuery)
    /\ searchQuery' = <<>>
    /\ filters' = EmptyFilters
    /\ sortBy' = "relevance"
    /\ FetchAllProductsStart(NotGivenFilters, NotGivenSort)
    /\ UNCHANGED <<mounted, products, isFilteringOrSorting, currentTab>>
    /\ UNCHANGED <<sbVars, gemVars, hcVars, paVars, authVars, formVars, menuVars>>
    /\ PanelsFollow

\* the snackbar is closed by the user or by its auto-hide timer
handleCloseError ==
    /\ LayoutRendered
    /\ error # Null
    /\ error' = Null
    /\ UNCHANGED <<mounted, products, isLoading, isFilteringOrSorting, searchQuery,
                   currentTab, filters, sortBy, inflight, latest>>
    /\ UNCHANGED <<sbVars, gemVars, hcVars, paVars, authVars, formVars, menuVars>>
    /\ PanelsFollow

\* a tab is selected: setCurrentTab(newValue); the panel of the tab left is
\* unmounted and the one of the tab selected mounts, its effects running in
\* the same commit
handleTabChange(newValue) ==
    /\ LayoutRendered
    /\ newValue # currentTab
    /\ currentTab' = newValue
    /\ UNCHANGED <<mounted, products, isLoading, isFilteringOrSorting, error, searchQuery,
                   filters, sortBy, inflight, latest>>
    /\ UNCHANGED <<sbVars, gemVars, hcVars, paVars, authVars, formVars, menuVars>>
    /\ PanelsFollow

\* as Finally, but lowering isLoading whatever the operation
FinallyLoadingOnly(request) ==
    isLoading' = FALSE /\ UNCHANGED isFilteringOrSorting

\* the finally block of fetchAllProducts / handleSearch
Finally(request) ==
    IF request.isFilterOperation
    THEN isFilteringOrSorting' = FALSE /\ UNCHANGED isLoading
    ELSE isLoading' = FALSE /\ UNCHANGED isFilteringOrSorting

\* the request is the most recently issued one
IsLatest(i) == i = Len(inflight) /\ latest.status = "pending"

\* the response of the i-th request in flight arrives with a product list:
\* the code after the await, then finally
RequestSucceeds(i, data) ==
    /\ i \in 1..Len(inflight)
    /\ LET request == inflight[i]
       IN  /\ products' = MapTransform(data)
           /\ IF request.api = "aiSearch"
              THEN /\ filters' = OrElse(request.newFilters, filters)
                   /\ sortBy' = OrElse(request.newSortBy, sortBy)
              ELSE UNCHANGED <<filters, sortBy>>
           /\ Finally(request)
           /\ latest' = IF IsLatest(i)
                        THEN [status |-> "ok", products |-> MapTransform(data)]
                        ELSE latest
    /\ inflight' = RemoveAt(inflight, i)
    /\ UNCHANGED <<mounted, error, searchQuery, currentTab>>
    /\ UNCHANGED <<sbVars, gemVars, hcVars, paVars, authVars, formVars, menuVars>>
    /\ PanelsFollow

\* as RequestFails, but the catch block issues the request again
RequestFailsRetrying(i, err) ==
    /\ i \in 1..Len(inflight)
    /\ error' = getErrorMessage(err)
    /\ latest' = Pending
    /\ inflight' = Append(RemoveAt(inflight, i), inflight[i])
    /\ UNCHANGED <<isLoading, isFilteringOrSorting>>
    /\ UNCHANGED <<mounted, products, searchQuery, currentTab, filters, sortBy>>
    /\ UNCHANGED <<sbVars, gemVars, hcVars, paVars, authVars, formVars, menuVars>>
    /\ PanelsFollow

\* as RequestFails, but without the finally block
RequestFailsKeepingFlags(i, err) ==
    /\ i \in 1..Len(inflight)
    /\ error' = getErrorMessage(err)
    /\ UNCHANGED <<isLoading, isFilteringOrSorting>>
    /\ latest' = IF IsLatest(i) THEN [status |-> "failed", products |-> <<>>] ELSE latest
    /\ inflight' = RemoveAt(inflight, i)
    /\ UNCHANGED <<mounted, products, searchQuery, currentTab, filters, sortBy>>
    /\ UNCHANGED <<sbVars, gemVars, hcVars, paVars, authVars, formVars, menuVars>>
    /\ PanelsFollow

\* as RequestFails, but the catch block empties the product list
RequestFailsClearingProducts(i, err) ==
    /\ i \in 1..Len(inflight)
    /\ error' = getErrorMessage(err)
    /\ products' = <<>>
    /\ Finally(inflight[i])
    /\ latest' = IF IsLatest(i) THEN [status |-> "failed", products |-> <<>>] ELSE latest
    /\ inflight' = RemoveAt(inflight, i)
    /\ UNCHANGED <<mounted, searchQuery, currentTab, filters, sortBy>>
    /\ UNCHANGED <<sbVars, gemVars, hcVars, paVars, authVars, formVars, menuVars>>
    /\ PanelsFollow

\* the i-th request in flight fails with err: the catch block, then finally
RequestFails(i, err) ==
    /\ i \in 1..Len(inflight)
    /\ error' = getErrorMessage(err)
    /\ Finally(inflight[i])
    /\ latest' = IF IsLatest(i) THEN [status |-> "failed", products |-> <<>>] ELSE latest
    /\ inflight' = RemoveAt(inflight, i)
    /\ UNCHANGED <<mounted, products, searchQuery, currentTab, filters, sortBy>>
    /\ UNCHANGED <<sbVars, gemVars, hcVars, paVars, authVars, formVars, menuVars>>
    /\ PanelsFollow

(***************************************************************************)
(* The sign-in forms and the observer: initial state                       *)
(***************************************************************************)
\* useState<LoginData>({ username: '', password: '' })
EmptyLoginData == [username |-> <<>>, password |-> <<>>]

\* useState<RegisterData>({ username: '', email: '', password: '', firstName: '', lastName: '' })
EmptyRegisterData ==
    [username |-> <<>>, email |-> <<>>, password |-> <<>>, firstName |-> <<>>, lastName |-> <<>>]

\* both forms untouched
FormsClosed ==
    /\ loginFormData = EmptyLoginData
    /\ loginLocalError = Null
    /\ registerFormData = EmptyRegisterData
    /\ confirmPassword = <<>>
    /\ registerLocalError = Null

\* no response has filled products yet
NothingShown ==
    [api |-> "none", query |-> <<>>, filters |-> NotGivenFilters, sortBy |-> NotGivenSort,
     page |-> NoPaging, limit |-> NoPaging]

\* the observer before the user has done anything
NotObserved ==
    /\ lastOp = "none"
    /\ wanted = [filters |-> EmptyFilters, sortBy |-> "relevance"]
    /\ shown = NothingShown
    /\ failedSince = FALSE

(***************************************************************************)
(* App: specification                                                      *)
(***************************************************************************)
Init ==
    /\ mounted = FALSE
    /\ products = <<>>
    /\ isLoading = TRUE
    /\ isFilteringOrSorting = FALSE
    /\ error = Null
    /\ searchQuery = <<>>
    /\ currentTab = 0
    /\ filters = EmptyFilters
    /\ sortBy = "relevance"
    /\ inflight = <<>>
    /\ latest = [status |-> "none", products |-> <<>>]
    /\ query = <<>>
    /\ focused = FALSE
    /\ blurTimers = 0
    /\ onSearchCalls = <<>>
    /\ thrown = [kind |-> "undefined", isAxiosError |-> FALSE, code |-> Undefined,
                 response |-> NoResponse]
    /\ message = NotReturned
    /\ HealthCheckNotCalled
    /\ ProductApiNotCalled
    /\ AuthNotMounted
    /\ SearchHistoryNotMounted
    /\ PopularSearchesNotMounted
    /\ FormsClosed
    /\ NotObserved

\* the steps the user takes that issue a product request
UserRequest ==
    \/ \E example \in ExampleInputs : ExampleClick(example)
    \/ \E typed \in TypedStrings : SearchSubmit(typed)
    \/ \E suggestion \in SuggestionInputs : SuggestionSearch(suggestion)
    \/ \E q \in ListedQueries : handleSearchFromHistory(q)
    \/ \E value \in CategoryInputs : handleFiltersChange(WithCategory(filters, value))
    \/ \E newSortBy \in SortInputs : handleSortChange(newSortBy)
    \/ clearAllFilters
    \/ resetSearch

\* a request of the panel shown is issued by the step
PanelRequestIssued ==
    \/ Len(historyInflight') > Len(historyInflight)
    \/ Len(popularInflight') > Len(popularInflight)

\* App with its tab panels; the controls of the panels other than their
\* entries are left alone, and nothing is observed
Next ==
    \/ Mount /\ UNCHANGED obsVars
    \/ (\E example \in ExampleInputs : ExampleClick(example)) /\ UNCHANGED obsVars
    \/ (\E typed \in TypedStrings : SearchSubmit(typed)) /\ UNCHANGED obsVars
    \/ (\E suggestion \in SuggestionInputs : SuggestionSearch(suggestion)) /\ UNCHANGED obsVars
    \/ (\E q \in ListedQueries : handleSearchFromHistory(q)) /\ UNCHANGED obsVars
    \/ (\E value \in CategoryInputs : handleFiltersChange(WithCategory(filters, value)))
           /\ UNCHANGED obsVars
    \/ (\E newSortBy \in SortInputs : handleSortChange(newSortBy)) /\ UNCHANGED obsVars
    \/ clearAllFilters /\ UNCHANGED obsVars
    \/ resetSearch /\ UNCHANGED obsVars
    \/ handleCloseError /\ UNCHANGED obsVars
    \/ (\E newValue \in {0, 1, 2} : handleTabChange(newValue)) /\ UNCHANGED obsVars
    \/ (\E i \in 1..Len(inflight) : \E data \in BackendLists : RequestSucceeds(i, data))
           /\ UNCHANGED obsVars
    \/ (\E i \in 1..Len(inflight) : \E err \in RequestErrors : RequestFails(i, err))
           /\ UNCHANGED obsVars
    \/ \E i \in 1..Len(historyInflight) : \E response \in ListedHistoryResponses :
           HistoryResponds(i, response)
    \/ \E i \in 1..Len(historyInflight) : HistoryFails(i)
    \/ \E i \in 1..Len(popularInflight) : \E data \in PopularLists : PopularResponds(i, data)
    \/ \E i \in 1..Len(popularInflight) : PopularFails(i)

Spec == Init /\ [][Next]_vars

\* the product request that has been in flight longest settles
SettleOldest ==
    /\ \/ \E data \in BackendLists : RequestSucceeds(1, data)
       \/ \E err \in RequestErrors : RequestFails(1, err)
    /\ UNCHANGED obsVars

\* the mount effect runs, and no request stays in flight for ever: the oldest
\* one settles (axios timeout: 10000)
SpecFair == Spec /\ WF_vars(Mount /\ UNCHANGED obsVars) /\ WF_vars(SettleOldest)

\* the options a request carries to the backend
Sent(request) ==
    [api |-> request.api, query |-> request.query, filters |-> request.filters,
     sortBy |-> request.sortBy, page |-> request.page, limit |-> request.limit]

(***************************************************************************)
(* App with an observer, who notes what the user did last, what the        *)
(* controls of FilterAndSort showed right after it, and which request's    *)
(* response filled the product list                                        *)
(***************************************************************************)
\* the user has taken the step op
UserStep(op) ==
    /\ lastOp' = op
    /\ wanted' = [filters |-> filters', sortBy |-> sortBy']
    /\ failedSince' = FALSE
    /\ UNCHANGED shown

NextObserved ==
    \/ Mount /\ UNCHANGED obsVars
    \/ (\E example \in ExampleInputs : ExampleClick(example)) /\ UserStep("search")
    \/ (\E typed \in TypedStrings : SearchSubmit(typed)) /\ UserStep("search")
    \/ (\E suggestion \in SuggestionInputs : SuggestionSearch(suggestion)) /\ UserStep("search")
    \/ (\E q \in ListedQueries : handleSearchFromHistory(q)) /\ UserStep("search")
    \/ (\E value \in CategoryInputs : handleFiltersChange(WithCategory(filters, value)))
           /\ UserStep("filters")
    \/ (\E newSortBy \in SortInputs : handleSortChange(newSortBy)) /\ UserStep("sort")
    \/ clearAllFilters /\ UserStep("clear")
    \/ resetSearch /\ UserStep("reset")
    \/ handleCloseError /\ UNCHANGED obsVars
    \/ (\E newValue \in {0, 1, 2} : handleTabChange(newValue)) /\ UNCHANGED obsVars
    \/ \E i \in 1..Len(inflight) :
           /\ \E data \in BackendLists : RequestSucceeds(i, data)
           /\ shown' = Sent(inflight[i])
           /\ UNCHANGED <<lastOp, wanted, failedSince>>
    \/ \E i \in 1..Len(inflight) :
           /\ \E err \in RequestErrors : RequestFails(i, err)
           /\ failedSince' = TRUE
           /\ UNCHANGED <<lastOp, wanted, shown>>
    \/ \E i \in 1..Len(historyInflight) : \E response \in ListedHistoryResponses :
           HistoryResponds(i, response)
    \/ \E i \in 1..Len(historyInflight) : HistoryFails(i)
    \/ \E i \in 1..Len(popularInflight) : \E data \in PopularLists : PopularResponds(i, data)
    \/ \E i \in 1..Len(popularInflight) : PopularFails(i)

SpecObserved == Init /\ [][NextObserved]_vars

(***************************************************************************)
(* SearchBar rendered on its own: onSearch records its argument            *)
(***************************************************************************)
\* as SubmitDisabled, but without trim
SubmitDisabledUntrimmed == ~Truthy(query)

\* disabled={!query.trim()} of the submit button
SubmitDisabled == ~Truthy(Trim(query))

\* <Fade in={focused && !query}>: the suggestion chips are shown
SuggestionsShown == focused /\ ~Truthy(query)

handleInputChange(value) ==
    /\ query' = value
    /\ UNCHANGED <<focused, blurTimers, onSearchCalls>>
    /\ UNCHANGED <<appVars, gemVars, hcVars, paVars, authVars,
                   shVars, formVars, obsVars, menuVars, psVars>>

\* onFocus={() => setFocused(true)}
Focus ==
    /\ focused' = TRUE
    /\ UNCHANGED <<query, blurTimers, onSearchCalls>>
    /\ UNCHANGED <<appVars, gemVars, hcVars, paVars, authVars,
                   shVars, formVars, obsVars, menuVars, psVars>>

\* onBlur={() => setTimeout(() => setFocused(false), 200)}
Blur ==
    /\ blurTimers < MaxBlurTimers
    /\ blurTimers' = blurTimers + 1
    /\ UNCHANGED <<query, focused, onSearchCalls>>
    /\ UNCHANGED <<appVars, gemVars, hcVars, paVars, authVars,
                   shVars, formVars, obsVars, menuVars, psVars>>

\* the timer of onBlur fires
BlurTimeout ==
    /\ blurTimers > 0
    /\ blurTimers' = blurTimers - 1
    /\ focused' = FALSE
    /\ UNCHANGED <<query, onSearchCalls>>
    /\ UNCHANGED <<appVars, gemVars, hcVars, paVars, authVars,
                   shVars, formVars, obsVars, menuVars, psVars>>

\* as handleSubmit, but passing the query as typed
handleSubmitUntrimmed ==
    /\ IF Truthy(Trim(query))
       THEN /\ Len(onSearchCalls) < MaxCalls
            /\ onSearchCalls' = Append(onSearchCalls, query)
       ELSE UNCHANGED onSearchCalls
    /\ UNCHANGED <<query, focused, blurTimers>>
    /\ UNCHANGED <<appVars, gemVars, hcVars, paVars, authVars,
                   shVars, formVars, obsVars, menuVars, psVars>>

\* the form is submitted (button or Enter key)
handleSubmit ==
    /\ IF Truthy(Trim(query))
       THEN /\ Len(onSearchCalls) < MaxCalls
            /\ onSearchCalls' = Append(onSearchCalls, Trim(query))
       ELSE UNCHANGED onSearchCalls
    /\ UNCHANGED <<query, focused, blurTimers>>
    /\ UNCHANGED <<appVars, gemVars, hcVars, paVars, authVars,
                   shVars, formVars, obsVars, menuVars, psVars>>

\* onClick of a suggestion chip
SuggestionClick(suggestion) ==
    /\ SuggestionsShown
    /\ Len(onSearchCalls) < MaxCalls
    /\ query' = suggestion
    /\ onSearchCalls' = Append(onSearchCalls, suggestion)
    /\ focused' = FALSE
    /\ UNCHANGED blurTimers
    /\ UNCHANGED <<appVars, gemVars, hcVars, paVars, authVars,
                   shVars, formVars, obsVars, menuVars, psVars>>

NextSearchBar ==
    \/ \E value \in QueryStrings : handleInputChange(value)
    \/ Focus
    \/ Blur
    \/ BlurTimeout
    \/ handleSubmit
    \/ \E suggestion \in Suggestions : SuggestionClick(suggestion)

SpecSearchBar == Init /\ [][NextSearchBar]_vars

(***************************************************************************)
(* apiUtils.getErrorMessage applied to a thrown value                      *)
(***************************************************************************)
InitGetErrorMessage ==
    /\ thrown \in ErrorValues
    /\ message = NotReturned
    /\ mounted = FALSE
    /\ products = <<>>
    /\ isLoading = TRUE
    /\ isFilteringOrSorting = FALSE
    /\ error = Null
    /\ searchQuery = <<>>
    /\ currentTab = 0
    /\ filters = EmptyFilters
    /\ sortBy = "relevance"
    /\ inflight = <<>>
    /\ latest = [status |-> "none", products |-> <<>>]
    /\ query = <<>>
    /\ focused = FALSE
    /\ blurTimers = 0
    /\ onSearchCalls = <<>>
    /\ HealthCheckNotCalled
    /\ ProductApiNotCalled
    /\ AuthNotMounted
    /\ SearchHistoryNotMounted
    /\ PopularSearchesNotMounted
    /\ FormsClosed
    /\ NotObserved

CallGetErrorMessage ==
    /\ message = NotReturned
    /\ message' = getErrorMessage(thrown)
    /\ UNCHANGED thrown
    /\ UNCHANGED <<appVars, sbVars, hcVars, paVars, authVars,
                   shVars, formVars, obsVars, menuVars, psVars>>

NextGetErrorMessage == CallGetErrorMessage

SpecGetErrorMessage == InitGetErrorMessage /\ [][NextGetErrorMessage]_vars

(***************************************************************************)
(* The components a specification leaves alone, in their initial state     *)
(***************************************************************************)
AppNotMounted ==
    /\ mounted = FALSE
    /\ products = <<>>
    /\ isLoading = TRUE
    /\ isFilteringOrSorting = FALSE
    /\ error = Null
    /\ searchQuery = <<>>
    /\ currentTab = 0
    /\ filters = EmptyFilters
    /\ sortBy = "relevance"
    /\ inflight = <<>>
    /\ latest = [status |-> "none", products |-> <<>>]

SearchBarInitial ==
    /\ query = <<>>
    /\ focused = FALSE
    /\ blurTimers = 0
    /\ onSearchCalls = <<>>

GetErrorMessageNotCalled ==
    /\ thrown = NoReason
    /\ message = NotReturned

(***************************************************************************)
(* apiUtils.healthCheck called once                                        *)
(***************************************************************************)
InitHealthCheck ==
    /\ healthOutcome \in HealthOutcomes
    /\ healthPhase = "idle"
    /\ healthResult = FALSE
    /\ AppNotMounted
    /\ SearchBarInitial
    /\ GetErrorMessageNotCalled
    /\ ProductApiNotCalled
    /\ AuthNotMounted
    /\ SearchHistoryNotMounted
    /\ PopularSearchesNotMounted
    /\ FormsClosed
    /\ NotObserved

\* healthCheck up to its await: api.get('/health')
HealthCheckCall ==
    /\ healthPhase = "idle"
    /\ healthPhase' = "pending"
    /\ UNCHANGED <<healthOutcome, healthResult>>
    /\ UNCHANGED <<appVars, sbVars, gemVars, paVars, authVars,
                   shVars, formVars, obsVars, menuVars, psVars>>

\* as HealthCheckSettle, but only axios errors are caught
HealthCheckSettleCatchingAxios ==
    /\ healthPhase = "pending"
    /\ IF healthOutcome.ok
       THEN healthPhase' = "returned" /\ healthResult' = TRUE
       ELSE IF IsAxiosError(healthOutcome.reason)
            THEN healthPhase' = "returned" /\ healthResult' = FALSE
            ELSE healthPhase' = "threw" /\ UNCHANGED healthResult
    /\ UNCHANGED healthOutcome
    /\ UNCHANGED <<appVars, sbVars, gemVars, paVars, authVars,
                   shVars, formVars, obsVars, menuVars, psVars>>

\* the request settles: return true, or catch { return false }
HealthCheckSettle ==
    /\ healthPhase = "pending"
    /\ healthPhase' = "returned"
    /\ healthResult' = IF healthOutcome.ok THEN TRUE ELSE FALSE
    /\ UNCHANGED healthOutcome
    /\ UNCHANGED <<appVars, sbVars, gemVars, paVars, authVars,
                   shVars, formVars, obsVars, menuVars, psVars>>

NextHealthCheck ==
    \/ HealthCheckCall
    \/ HealthCheckSettle

SpecHealthCheck == InitHealthCheck /\ [][NextHealthCheck]_vars

(***************************************************************************)
(* One product-list function of productApi called once                     *)
(***************************************************************************)
InitProductApi ==
    /\ apiFunction \in ApiFunctions
    /\ backendList \in ApiBackendLists
    /\ apiReturned = FALSE
    /\ apiResult = <<>>
    /\ AppNotMounted
    /\ SearchBarInitial
    /\ GetErrorMessageNotCalled
    /\ HealthCheckNotCalled
    /\ AuthNotMounted
    /\ SearchHistoryNotMounted
    /\ PopularSearchesNotMounted
    /\ FormsClosed
    /\ NotObserved

\* the list a function reads from the response body: response.data.results
\* for aiSearch, response.data.data for the others
BodyList(fn, body) == IF fn = "aiSearch" THEN body.results ELSE body.data

\* the response arrives: return <list>.map(transformProduct)
ProductApiReturns ==
    /\ ~apiReturned
    /\ apiReturned' = TRUE
    /\ apiResult' = MapTransform(BodyList(apiFunction, ResponseBody(apiFunction, backendList)))
    /\ UNCHANGED <<apiFunction, backendList>>
    /\ UNCHANGED <<appVars, sbVars, gemVars, hcVars, authVars,
                   shVars, formVars, obsVars, menuVars, psVars>>

NextProductApi == ProductApiReturns

SpecProductApi == InitProductApi /\ [][NextProductApi]_vars

(***************************************************************************)
(* context/AuthContext: AuthProvider and the components that call it       *)
(***************************************************************************)
\* the bodies authApi.getSession resolves with
SessionResponses == [authenticated : BOOLEAN, user : {NoUser, UserAlice}]

\* the bodies authApi.login / authApi.register resolve with
AuthResponses ==
    [success : BOOLEAN, user : {NoUser, UserAlice}, message : {"", "Invalid credentials"}]

\* the bodies authApi.updatePreferences resolves with
PreferencesResponses == [success : BOOLEAN, theme : {"dark"}]

\* the errors an auth request is rejected with: error.response?.data?.message
\* and error.message
AuthErrors ==
    {[responseMessage |-> "Username already exists", message |-> "Request failed with status code 400"],
     [responseMessage |-> Undefined, message |-> "Network Error"],
     [responseMessage |-> Undefined, message |-> ""]}

\* a || b || c on optional texts
FirstTruthy(a, b, c) == IF TruthyText(a) THEN a ELSE IF TruthyText(b) THEN b ELSE c

\* the fallback texts of login, register and updatePreferences
Fallback(op) ==
    CASE op = "login" -> "Login failed"
      [] op = "register" -> "Registration failed"
      [] op = "updatePreferences" -> "Failed to update preferences"

\* the request carries no form data
NoData == [none |-> TRUE]

\* a request awaiting its response; user is state.user of the render whose
\* updatePreferences was called, data the argument of login or register, and
\* unmounted says that the form which awaits it has been unmounted since
AuthRequest(op, user, onMount) ==
    [op |-> op, user |-> user, onMount |-> onMount, stale |-> FALSE, data |-> NoData,
     unmounted |-> FALSE]

\* UserMenu past `if (state.isLoading)`: both branches below it render
\* LoginForm and RegisterForm, with open taken from the state of UserMenu
DialogsRendered == authMounted /\ ~authState.isLoading

\* UserMenu past `if (state.isLoading)`, in the branch of
\* (!state.isAuthenticated || !state.user): the Sign In / Sign Up buttons
UnauthenticatedMenu ==
    /\ authMounted
    /\ ~authState.isLoading
    /\ ~authState.isAuthenticated \/ authState.user = NoUser

\* UserMenu past both returns: the account menu with its Logout item
AuthenticatedMenu ==
    /\ authMounted
    /\ ~authState.isLoading
    /\ authState.isAuthenticated
    /\ authState.user # NoUser

\* the branch of UserMenu that a state renders
UserMenuBranch(state) ==
    IF state.isLoading THEN "loading"
    ELSE IF ~state.isAuthenticated \/ state.user = NoUser THEN "unauthenticated"
    ELSE "authenticated"

\* the render of authState' takes another branch of UserMenu than the last
\* one: LoginForm and RegisterForm stand at other positions among the children
\* of each branch, and nowhere in the loading one
BranchChanges == UserMenuBranch(authState') # UserMenuBranch(authState)

\* the forms of the new branch are mounted with their initial state
FormsRemount ==
    /\ loginFormData' = EmptyLoginData
    /\ loginLocalError' = Null
    /\ registerFormData' = EmptyRegisterData
    /\ confirmPassword' = <<>>
    /\ registerLocalError' = Null

\* the forms after the render of authState'
FormsFollow == IF BranchChanges THEN FormsRemount ELSE UNCHANGED formVars

\* the requests after the render of authState': the forms that await a login
\* or register request are unmounted when the branch changes
AfterRender(requests) ==
    IF BranchChanges
    THEN [k \in 1..Len(requests) |->
              [requests[k] EXCEPT !.unmounted = @ \/ requests[k].op \in {"login", "register"}]]
    ELSE requests

\* checkSession up to its await
CheckSessionStart(onMount) ==
    /\ Len(authInflight) < MaxAuthInFlight
    /\ authState' = authReducer(authState, SET_LOADING(TRUE))
    /\ authInflight' = Append(AfterRender(authInflight),
                              AuthRequest("getSession", NoUser, onMount))
    /\ FormsFollow
    /\ UNCHANGED <<authCall, loggedOut>>

\* useEffect(() => { checkSession() }, [])
AuthMount ==
    /\ ~authMounted
    /\ authMounted' = TRUE
    /\ CheckSessionStart(TRUE)
    /\ UNCHANGED <<appVars, sbVars, gemVars, hcVars, paVars, shVars, obsVars, menuVars, psVars>>

\* checkSession of the context value, called by a consumer of the context
checkSession ==
    /\ authMounted
    /\ UNCHANGED authMounted
    /\ CheckSessionStart(FALSE)
    /\ UNCHANGED <<appVars, sbVars, gemVars, hcVars, paVars, shVars, obsVars, menuVars, psVars>>

\* login / register up to the await: SET_LOADING true, then SET_ERROR null
SignInStart(op, data) ==
    /\ Len(authInflight) < MaxAuthInFlight
    /\ authState' = authReducer(authReducer(authState, SET_LOADING(TRUE)), SET_ERROR(Null))
    /\ authInflight' = Append(authInflight,
                              [AuthRequest(op, NoUser, FALSE) EXCEPT !.data = data])
    /\ UNCHANGED <<authMounted, authCall, loggedOut>>

\* login(credentials) of the context value, up to its await
login(credentials) == SignInStart("login", credentials)

\* register(userData) of the context value, up to its await
register(userData) == SignInStart("register", userData)

\* UserMenu.handleLoginClick: the Sign In button
handleLoginClick ==
    /\ UnauthenticatedMenu
    /\ showLoginForm' = TRUE
    /\ UNCHANGED showRegisterForm
    /\ UNCHANGED <<appVars, sbVars, gemVars, hcVars, paVars,
                   authVars, shVars, formVars, obsVars, psVars>>

\* UserMenu.handleRegisterClick: the Sign Up button
handleRegisterClick ==
    /\ UnauthenticatedMenu
    /\ showRegisterForm' = TRUE
    /\ UNCHANGED showLoginForm
    /\ UNCHANGED <<appVars, sbVars, gemVars, hcVars, paVars,
                   authVars, shVars, formVars, obsVars, psVars>>

\* UserMenu.switchToRegister: the link of the open login dialog
switchToRegister ==
    /\ DialogsRendered
    /\ showLoginForm
    /\ showLoginForm' = FALSE
    /\ showRegisterForm' = TRUE
    /\ UNCHANGED <<appVars, sbVars, gemVars, hcVars, paVars,
                   authVars, shVars, formVars, obsVars, psVars>>

\* UserMenu.switchToLogin: the link of the open register dialog
switchToLogin ==
    /\ DialogsRendered
    /\ showRegisterForm
    /\ showRegisterForm' = FALSE
    /\ showLoginForm' = TRUE
    /\ UNCHANGED <<appVars, sbVars, gemVars, hcVars, paVars,
                   authVars, shVars, formVars, obsVars, psVars>>

\* the values typed into a field of LoginForm
LoginFieldInputs(name) ==
    IF name = "username" THEN {<<>>, <<"a", "b">>} ELSE {<<>>, <<"1", "2", "3", "4", "5">>}

\* the values typed into a field of RegisterForm
RegisterFieldInputs(name) ==
    CASE name = "username" -> {<<>>, <<"a", "b">>, <<"a", "b", "c">>}
      [] name = "email" -> {<<>>, <<"a", "@", "b">>, <<"a", "@", "b", ".", "c">>,
                            <<"@", "b", ".", "c">>, <<"a", "@", "b", ".">>}
      [] name = "password" -> {<<>>, <<"1", "2", "3", "4", "5">>,
                               <<"1", "2", "3", "4", "5", "6">>}
      [] name = "confirmPassword" -> {<<>>, <<"1", "2", "3", "4", "5", "6">>}
      [] OTHER -> {<<>>}

\* /^[^\s@]+@[^\s@]+\.[^\s@]+$/.test(s)
emailRegexTest(s) ==
    \E i \in 1..Len(s) : \E j \in 1..Len(s) :
        /\ s[i] = "@"
        /\ s[j] = "."
        /\ 1 < i
        /\ i + 1 < j
        /\ j < Len(s)
        /\ \A k \in (1..Len(s)) \ {i} : s[k] \notin WhitespaceChars /\ s[k] # "@"

\* as validateForm, but without the comparison with confirmPassword
validateFormWithoutConfirmation(formData, confirm) ==
    IF ~Truthy(formData.username) \/ ~Truthy(formData.email) \/ ~Truthy(formData.password)
    THEN "Please fill in all required fields"
    ELSE IF Len(formData.username) < 3 THEN "Username must be at least 3 characters long"
    ELSE IF Len(formData.password) < 6 THEN "Password must be at least 6 characters long"
    ELSE IF ~emailRegexTest(formData.email) THEN "Please enter a valid email address"
    ELSE Null

\* RegisterForm.validateForm: the local error it sets, Null when it returns true
validateForm(formData, confirm) ==
    IF ~Truthy(formData.username) \/ ~Truthy(formData.email) \/ ~Truthy(formData.password)
    THEN "Please fill in all required fields"
    ELSE IF Len(formData.username) < 3 THEN "Username must be at least 3 characters long"
    ELSE IF Len(formData.password) < 6 THEN "Password must be at least 6 characters long"
    ELSE IF formData.password # confirm THEN "Passwords do not match"
    ELSE IF ~emailRegexTest(formData.email) THEN "Please enter a valid email address"
    ELSE Null

\* the fields and the submit button are enabled: disabled={state.isLoading}
FormEnabled == ~authState.isLoading

\* the login dialog is on the screen: <Dialog open={open}> of a rendered LoginForm
LoginDialogOpen == DialogsRendered /\ showLoginForm

\* the register dialog is on the screen
RegisterDialogOpen == DialogsRendered /\ showRegisterForm

LoginHandleInputChange(name, value) ==
    /\ LoginDialogOpen
    /\ FormEnabled
    /\ loginFormData' = [loginFormData EXCEPT ![name] = value]
    /\ loginLocalError' = Null
    /\ UNCHANGED <<registerFormData, confirmPassword, registerLocalError>>
    /\ UNCHANGED <<appVars, sbVars, gemVars, hcVars, paVars,
                   authVars, shVars, obsVars, menuVars, psVars>>

\* LoginForm.handleSubmit up to its await: with both fields filled it calls
\* login(formData) of the context
LoginHandleSubmit ==
    /\ LoginDialogOpen
    /\ FormEnabled
    /\ IF ~Truthy(loginFormData.username) \/ ~Truthy(loginFormData.password)
       THEN /\ loginLocalError' = "Please fill in all fields"
            /\ UNCHANGED authVars
       ELSE /\ loginLocalError' = Null
            /\ login(loginFormData)
    /\ UNCHANGED <<loginFormData, registerFormData, confirmPassword, registerLocalError>>
    /\ UNCHANGED <<appVars, sbVars, gemVars, hcVars, paVars, shVars, obsVars, menuVars, psVars>>

\* LoginForm.handleClose: the form is reset and onClose={() =>
\* setShowLoginForm(false)} of UserMenu is called
LoginHandleClose ==
    /\ LoginDialogOpen
    /\ loginFormData' = EmptyLoginData
    /\ loginLocalError' = Null
    /\ showLoginForm' = FALSE
    /\ UNCHANGED showRegisterForm
    /\ UNCHANGED <<registerFormData, confirmPassword, registerLocalError>>
    /\ UNCHANGED <<appVars, sbVars, gemVars, hcVars, paVars, authVars, shVars, obsVars, psVars>>

\* the Alert of LoginForm is closed: onClose={() => setLocalError(null)}
LoginAlertClose ==
    /\ LoginDialogOpen
    /\ loginLocalError # Null \/ authState.error # Null
    /\ loginLocalError' = Null
    /\ UNCHANGED <<loginFormData, registerFormData, confirmPassword, registerLocalError>>
    /\ UNCHANGED <<appVars, sbVars, gemVars, hcVars, paVars,
                   authVars, shVars, obsVars, menuVars, psVars>>

RegisterHandleInputChange(name, value) ==
    /\ RegisterDialogOpen
    /\ FormEnabled
    /\ IF name = "confirmPassword"
       THEN confirmPassword' = value /\ UNCHANGED registerFormData
       ELSE registerFormData' = [registerFormData EXCEPT ![name] = value]
            /\ UNCHANGED confirmPassword
    /\ registerLocalError' = Null
    /\ UNCHANGED <<loginFormData, loginLocalError>>
    /\ UNCHANGED <<appVars, sbVars, gemVars, hcVars, paVars,
                   authVars, shVars, obsVars, menuVars, psVars>>

\* RegisterForm.handleSubmit up to its await: with a valid form it calls
\* register(submitData) of the context
RegisterHandleSubmit ==
    /\ RegisterDialogOpen
    /\ FormEnabled
    /\ IF validateForm(registerFormData, confirmPassword) # Null
       THEN /\ registerLocalError' = validateForm(registerFormData, confirmPassword)
            /\ UNCHANGED authVars
       ELSE /\ registerLocalError' = Null
            /\ register([registerFormData EXCEPT
                             !.firstName = IF Truthy(@) THEN @ ELSE Undefined,
                             !.lastName = IF Truthy(@) THEN @ ELSE Undefined])
    /\ UNCHANGED <<registerFormData, confirmPassword, loginFormData, loginLocalError>>
    /\ UNCHANGED <<appVars, sbVars, gemVars, hcVars, paVars, shVars, obsVars, menuVars, psVars>>

\* RegisterForm.handleClose: the form is reset and onClose={() =>
\* setShowRegisterForm(false)} of UserMenu is called
RegisterHandleClose ==
    /\ RegisterDialogOpen
    /\ registerFormData' = EmptyRegisterData
    /\ confirmPassword' = <<>>
    /\ registerLocalError' = Null
    /\ showRegisterForm' = FALSE
    /\ UNCHANGED showLoginForm
    /\ UNCHANGED <<loginFormData, loginLocalError>>
    /\ UNCHANGED <<appVars, sbVars, gemVars, hcVars, paVars, authVars, shVars, obsVars, psVars>>

\* the Alert of RegisterForm is closed: onClose={() => setLocalError(null)}
RegisterAlertClose ==
    /\ RegisterDialogOpen
    /\ registerLocalError # Null \/ authState.error # Null
    /\ registerLocalError' = Null
    /\ UNCHANGED <<registerFormData, confirmPassword, loginFormData, loginLocalError>>
    /\ UNCHANGED <<appVars, sbVars, gemVars, hcVars, paVars,
                   authVars, shVars, obsVars, menuVars, psVars>>

\* handleSubmit of the form that issued the request, after its await, and the
\* render of authState': when the promise resolved the form is reset (a form
\* unmounted since ignores it) and onClose() closes its dialog; the catch
\* block only logs
FormSettles(request, resolved) ==
    /\ IF BranchChanges
       THEN FormsRemount
       ELSE IF resolved /\ ~request.unmounted
            THEN IF request.op = "login"
                 THEN /\ loginFormData' = EmptyLoginData
                      /\ UNCHANGED <<loginLocalError, registerFormData, confirmPassword,
                                     registerLocalError>>
                 ELSE /\ registerFormData' = EmptyRegisterData
                      /\ confirmPassword' = <<>>
                      /\ UNCHANGED <<loginFormData, loginLocalError, registerLocalError>>
            ELSE UNCHANGED formVars
    /\ IF resolved
       THEN IF request.op = "login"
            THEN showLoginForm' = FALSE /\ UNCHANGED showRegisterForm
            ELSE showRegisterForm' = FALSE /\ UNCHANGED showLoginForm
       ELSE UNCHANGED menuVars

\* UserMenu.handleLogout: logout() up to its await
logout ==
    /\ AuthenticatedMenu
    /\ Len(authInflight) < MaxAuthInFlight
    /\ authInflight' = Append(authInflight, AuthRequest("logout", NoUser, FALSE))
    /\ UNCHANGED <<authMounted, authState, authCall, loggedOut>>
    /\ UNCHANGED <<appVars, sbVars, gemVars, hcVars, paVars,
                   shVars, formVars, obsVars, menuVars, psVars>>

\* updatePreferences of the context value, called by a consumer of the
\* context, up to its await; state.user is the user of the render that handed
\* the function out, null when nobody is signed in
updatePreferences ==
    /\ authMounted
    /\ Len(authInflight) < MaxAuthInFlight
    /\ authInflight' = Append(authInflight,
                              AuthRequest("updatePreferences", authState.user, FALSE))
    /\ UNCHANGED <<authMounted, authState, authCall, loggedOut>>
    /\ UNCHANGED <<appVars, sbVars, gemVars, hcVars, paVars,
                   shVars, formVars, obsVars, menuVars, psVars>>

\* a user was put into the state by a sign-in issued after the last logout
SignedIn(request, state) ==
    ~request.stale /\ state.user # NoUser

\* as SessionResponds, but a user the response carries is taken whatever
\* response.authenticated says
SessionRespondsTrustingUser(i, response) ==
    /\ i \in 1..Len(authInflight)
    /\ authInflight[i].op = "getSession"
    /\ authState' = authReducer(authState, SET_USER(response.user))
    /\ authInflight' = AfterRender(RemoveAt(authInflight, i))
    /\ authCall' = "resolved"
    /\ loggedOut' = (loggedOut /\ ~SignedIn(authInflight[i], authState'))
    /\ FormsFollow
    /\ UNCHANGED authMounted
    /\ UNCHANGED <<appVars, sbVars, gemVars, hcVars, paVars, shVars, obsVars, menuVars, psVars>>

\* authApi.getSession resolves: the code of checkSession after its await
SessionResponds(i, response) ==
    /\ i \in 1..Len(authInflight)
    /\ authInflight[i].op = "getSession"
    /\ authState' = IF response.authenticated /\ response.user # NoUser
                    THEN authReducer(authState, SET_USER(response.user))
                    ELSE authReducer(authState, SET_USER(NoUser))
    /\ authInflight' = AfterRender(RemoveAt(authInflight, i))
    /\ authCall' = "resolved"
    /\ loggedOut' = (loggedOut /\ ~SignedIn(authInflight[i], authState'))
    /\ FormsFollow
    /\ UNCHANGED authMounted
    /\ UNCHANGED <<appVars, sbVars, gemVars, hcVars, paVars, shVars, obsVars, menuVars, psVars>>

\* authApi.getSession is rejected: the catch block of checkSession
SessionFails(i) ==
    /\ i \in 1..Len(authInflight)
    /\ authInflight[i].op = "getSession"
    /\ authState' = authReducer(authState, SET_ERROR("Failed to check session"))
    /\ authInflight' = AfterRender(RemoveAt(authInflight, i))
    /\ authCall' = "resolved"
    /\ FormsFollow
    /\ UNCHANGED <<authMounted, loggedOut>>
    /\ UNCHANGED <<appVars, sbVars, gemVars, hcVars, paVars, shVars, obsVars, menuVars, psVars>>

\* as SignInResponds, but a response that lacks success or a user is ignored
SignInRespondsIgnoringFailure(i, response) ==
    /\ i \in 1..Len(authInflight)
    /\ authInflight[i].op \in {"login", "register"}
    /\ IF response.success /\ response.user # NoUser
       THEN authState' = authReducer(authState, SET_USER(response.user))
       ELSE UNCHANGED authState
    /\ authCall' = "resolved"
    /\ authInflight' = AfterRender(RemoveAt(authInflight, i))
    /\ loggedOut' = (loggedOut /\ ~SignedIn(authInflight[i], authState'))
    /\ FormSettles(authInflight[i], response.success /\ response.user # NoUser)
    /\ UNCHANGED authMounted
    /\ UNCHANGED <<appVars, sbVars, gemVars, hcVars, paVars, shVars, obsVars, psVars>>

\* authApi.login / authApi.register resolves: SET_USER, or throw new
\* Error(response.message || fallback) into the catch block, which dispatches
\* SET_ERROR and rethrows; then the form that called goes on after its await
SignInResponds(i, response) ==
    /\ i \in 1..Len(authInflight)
    /\ authInflight[i].op \in {"login", "register"}
    /\ IF response.success /\ response.user # NoUser
       THEN /\ authState' = authReducer(authState, SET_USER(response.user))
            /\ authCall' = "resolved"
       ELSE LET op == authInflight[i].op
                thrownMessage == IF TruthyText(response.message) THEN response.message
                                 ELSE Fallback(op)
            IN  /\ authState' = authReducer(authState,
                                    SET_ERROR(FirstTruthy(Undefined, thrownMessage, Fallback(op))))
                /\ authCall' = "rejected"
    /\ authInflight' = AfterRender(RemoveAt(authInflight, i))
    /\ loggedOut' = (loggedOut /\ ~SignedIn(authInflight[i], authState'))
    /\ FormSettles(authInflight[i], response.success /\ response.user # NoUser)
    /\ UNCHANGED authMounted
    /\ UNCHANGED <<appVars, sbVars, gemVars, hcVars, paVars, shVars, obsVars, psVars>>

\* authApi.login / authApi.register is rejected: the catch block, then the
\* catch block of the form that called
SignInFails(i, err) ==
    /\ i \in 1..Len(authInflight)
    /\ authInflight[i].op \in {"login", "register"}
    /\ authState' = authReducer(authState,
                        SET_ERROR(FirstTruthy(err.responseMessage, err.message,
                                              Fallback(authInflight[i].op))))
    /\ authCall' = "rejected"
    /\ authInflight' = AfterRender(RemoveAt(authInflight, i))
    /\ FormSettles(authInflight[i], FALSE)
    /\ UNCHANGED <<authMounted, loggedOut>>
    /\ UNCHANGED <<appVars, sbVars, gemVars, hcVars, paVars, shVars, obsVars, psVars>>

\* the requests still in flight were issued before the logout that completes
MarkStale(requests) == [k \in 1..Len(requests) |-> [requests[k] EXCEPT !.stale = TRUE]]

\* as LogoutSettles, but LOGOUT is dispatched only when the request succeeded
LogoutSettlesOnSuccessOnly(i, ok) ==
    /\ i \in 1..Len(authInflight)
    /\ authInflight[i].op = "logout"
    /\ IF ok
       THEN /\ authState' = authReducer(authState, LOGOUT)
            /\ authInflight' = AfterRender(MarkStale(RemoveAt(authInflight, i)))
            /\ loggedOut' = TRUE
       ELSE /\ authInflight' = RemoveAt(authInflight, i)
            /\ UNCHANGED <<authState, loggedOut>>
    /\ authCall' = "resolved"
    /\ FormsFollow
    /\ UNCHANGED authMounted
    /\ UNCHANGED <<appVars, sbVars, gemVars, hcVars, paVars, shVars, obsVars, menuVars, psVars>>

\* authApi.logout settles, resolved (ok) or rejected: catch logs, finally
\* dispatches LOGOUT
LogoutSettles(i, ok) ==
    /\ i \in 1..Len(authInflight)
    /\ authInflight[i].op = "logout"
    /\ authState' = authReducer(authState, LOGOUT)
    /\ authInflight' = AfterRender(MarkStale(RemoveAt(authInflight, i)))
    /\ authCall' = "resolved"
    /\ loggedOut' = TRUE
    /\ FormsFollow
    /\ UNCHANGED authMounted
    /\ UNCHANGED <<appVars, sbVars, gemVars, hcVars, paVars, shVars, obsVars, menuVars, psVars>>

\* authApi.updatePreferences resolves: state.user is the one of the render
\* whose updatePreferences was called
PreferencesResponds(i, response) ==
    /\ i \in 1..Len(authInflight)
    /\ authInflight[i].op = "updatePreferences"
    /\ IF response.success /\ authInflight[i].user # NoUser
       THEN authState' = authReducer(authState,
                             SET_USER([authInflight[i].user EXCEPT !.theme = response.theme]))
       ELSE UNCHANGED authState
    /\ authInflight' = AfterRender(RemoveAt(authInflight, i))
    /\ authCall' = "resolved"
    /\ FormsFollow
    /\ UNCHANGED <<authMounted, loggedOut>>
    /\ UNCHANGED <<appVars, sbVars, gemVars, hcVars, paVars, shVars, obsVars, menuVars, psVars>>

\* authApi.updatePreferences is rejected: the catch block
PreferencesFails(i, err) ==
    /\ i \in 1..Len(authInflight)
    /\ authInflight[i].op = "updatePreferences"
    /\ authState' = authReducer(authState,
                        SET_ERROR(FirstTruthy(err.responseMessage, err.message,
                                              Fallback("updatePreferences"))))
    /\ authInflight' = AfterRender(RemoveAt(authInflight, i))
    /\ authCall' = "rejected"
    /\ FormsFollow
    /\ UNCHANGED <<authMounted, loggedOut>>
    /\ UNCHANGED <<appVars, sbVars, gemVars, hcVars, paVars, shVars, obsVars, menuVars, psVars>>

\* one value for each field of the two forms, which both accept
SignInInputs(name) ==
    CASE name = "username" -> {<<"a", "b", "c">>}
      [] name = "email" -> {<<"a", "@", "b", ".", "c">>}
      [] OTHER -> {<<"1", "2", "3", "4", "5", "6">>}

\* the user of this specification works with a pointer: a dialog that is open
\* covers the Sign In and Sign Up buttons
NoDialogOpen == ~showLoginForm /\ ~showRegisterForm

\* and fills in a form from top to bottom before submitting it: the next field
\* to type into
LoginFieldToFill ==
    IF loginFormData.username = <<>> THEN {"username"}
    ELSE IF loginFormData.password = <<>> THEN {"password"}
    ELSE {}

RegisterFieldToFill ==
    IF registerFormData.username = <<>> THEN {"username"}
    ELSE IF registerFormData.email = <<>> THEN {"email"}
    ELSE IF registerFormData.password = <<>> THEN {"password"}
    ELSE IF confirmPassword = <<>> THEN {"confirmPassword"}
    ELSE {}

\* the consumer that calls checkSession and updatePreferences awaits a call
\* before it makes the same call again
NoCallPending(op) ==
    \A k \in 1..Len(authInflight) : authInflight[k].op # op \/ authInflight[k].onMount

InitAuth ==
    /\ AuthNotMounted
    /\ SearchHistoryNotMounted
    /\ PopularSearchesNotMounted
    /\ FormsClosed
    /\ NotObserved
    /\ AppNotMounted
    /\ SearchBarInitial
    /\ GetErrorMessageNotCalled
    /\ HealthCheckNotCalled
    /\ ProductApiNotCalled

NextAuth ==
    \/ AuthMount
    \/ NoCallPending("getSession") /\ checkSession
    \/ NoDialogOpen /\ handleLoginClick
    \/ NoDialogOpen /\ handleRegisterClick
    \/ switchToRegister
    \/ switchToLogin
    \/ \E name \in LoginFieldToFill : \E value \in SignInInputs(name) :
           LoginHandleInputChange(name, value)
    \/ LoginFieldToFill = {} /\ LoginHandleSubmit
    \/ LoginHandleClose
    \/ LoginAlertClose
    \/ \E name \in RegisterFieldToFill :
           \E value \in SignInInputs(name) : RegisterHandleInputChange(name, value)
    \/ RegisterFieldToFill = {} /\ RegisterHandleSubmit
    \/ RegisterHandleClose
    \/ RegisterAlertClose
    \/ logout
    \/ NoCallPending("updatePreferences") /\ updatePreferences
    \/ \E i \in 1..Len(authInflight) : \E response \in SessionResponses : SessionResponds(i, response)
    \/ \E i \in 1..Len(authInflight) : SessionFails(i)
    \/ \E i \in 1..Len(authInflight) : \E response \in AuthResponses : SignInResponds(i, response)
    \/ \E i \in 1..Len(authInflight) : \E err \in AuthErrors : SignInFails(i, err)
    \/ \E i \in 1..Len(authInflight) : \E ok \in BOOLEAN : LogoutSettles(i, ok)
    \/ \E i \in 1..Len(authInflight) : \E response \in PreferencesResponses : PreferencesResponds(i, response)
    \/ \E i \in 1..Len(authInflight) : \E err \in AuthErrors : PreferencesFails(i, err)

SpecAuth == InitAuth /\ [][NextAuth]_vars

\* AuthProvider with the components of the repository that call it: nothing
\* in it calls checkSession a second time, or updatePreferences
NextSignIn ==
    \/ AuthMount
    \/ NoDialogOpen /\ handleLoginClick
    \/ NoDialogOpen /\ handleRegisterClick
    \/ switchToRegister
    \/ switchToLogin
    \/ \E name \in LoginFieldToFill : \E value \in SignInInputs(name) :
           LoginHandleInputChange(name, value)
    \/ LoginFieldToFill = {} /\ LoginHandleSubmit
    \/ LoginHandleClose
    \/ LoginAlertClose
    \/ \E name \in RegisterFieldToFill :
           \E value \in SignInInputs(name) : RegisterHandleInputChange(name, value)
    \/ RegisterFieldToFill = {} /\ RegisterHandleSubmit
    \/ RegisterHandleClose
    \/ RegisterAlertClose
    \/ logout
    \/ \E i \in 1..Len(authInflight) : \E response \in SessionResponses : SessionResponds(i, response)
    \/ \E i \in 1..Len(authInflight) : SessionFails(i)
    \/ \E i \in 1..Len(authInflight) : \E response \in AuthResponses : SignInResponds(i, response)
    \/ \E i \in 1..Len(authInflight) : \E err \in AuthErrors : SignInFails(i, err)
    \/ \E i \in 1..Len(authInflight) : \E ok \in BOOLEAN : LogoutSettles(i, ok)

SpecSignIn == InitAuth /\ [][NextSignIn]_vars

(***************************************************************************)
(* SearchHistory rendered on its own, with the auth state the context      *)
(* hands it                                                                *)
(***************************************************************************)
\* the dispatches of AuthProvider that SearchHistory sees as a new auth state
AuthRenders == {SET_LOADING(TRUE), SET_USER(UserAlice), SET_USER(NoUser), SET_ERROR(Null), LOGOUT}

\* AuthProvider dispatches action; when isAuthenticated or the user object
\* changes, the effect of SearchHistory runs, and the effect on [page, filters]
\* after it when it has changed the page
AuthStateChanges(action) ==
    /\ authState' = authReducer(authState, action)
    /\ UNCHANGED <<authMounted, authInflight, authCall, loggedOut>>
    /\ IF /\ historyMounted
          /\ \/ authState'.isAuthenticated # authState.isAuthenticated
             \/ authState'.user # authState.user
             \/ action.type = "SET_USER" /\ action.user # NoUser
       THEN LET effect == AuthEffect(authState')
            IN  /\ IssueHistory(IF effect = "fetch"
                                THEN <<HistoryRequest(page, historyFilters)>>
                                ELSE IF effect = "clear" /\ page # 1
                                     THEN <<HistoryRequest(1, historyFilters)>>
                                     ELSE <<>>)
                /\ IF effect = "clear"
                   THEN historyData' = <<>> /\ page' = 1 /\ totalPages' = 1
                   ELSE UNCHANGED <<historyData, page, totalPages>>
       ELSE UNCHANGED <<historyData, historyLoading, historyError, page, totalPages,
                        historyInflight>>
    /\ UNCHANGED <<historyMounted, historyFilters, showFilters>>
    /\ UNCHANGED <<appVars, sbVars, gemVars, hcVars, paVars, formVars, obsVars, menuVars, psVars>>

InitSearchHistory ==
    /\ SearchHistoryNotMounted
    /\ PopularSearchesNotMounted
    /\ AppNotMounted
    /\ SearchBarInitial
    /\ GetErrorMessageNotCalled
    /\ HealthCheckNotCalled
    /\ ProductApiNotCalled
    /\ AuthNotMounted
    /\ FormsClosed
    /\ NotObserved

NextSearchHistory ==
    \/ HistoryMount
    \/ HistoryUnmount
    \/ \E action \in AuthRenders : AuthStateChanges(action)
    \/ fetchHistory
    \/ \E value \in {1, 2} : handlePageChange(value)
    \/ setShowFilters
    \/ \E value \in {"", "lap"} : SearchInHistoryChange(value)
    \/ \E value \in {5, 10, 20, 50} : ItemsPerPageChange(value)
    \/ \E checked \in BOOLEAN : SuccessfulOnlyChange(checked)
    \/ clearFilters
    \/ \E i \in 1..Len(historyInflight) : \E response \in HistoryResponses :
           HistoryResponds(i, response)
    \/ \E i \in 1..Len(historyInflight) : HistoryFails(i)

SpecSearchHistory == InitSearchHistory /\ [][NextSearchHistory]_vars

(***************************************************************************)
(* PopularSearches rendered on its own                                     *)
(***************************************************************************)
\* a list of n entries of GET /search/popular
PopularListOf(n) == [k \in 1..n |-> [query |-> NumberToString(k), searchCount |-> "1"]]

\* response.data: no entry, one entry, and as many entries as "Top 5" and
\* the step of Show More after it ask for
PopularResponses == PopularLists \cup {PopularListOf(5), PopularListOf(15)}

InitPopularSearches == InitSearchHistory

NextPopularSearches ==
    \/ PopularMount
    \/ PopularUnmount
    \/ fetchPopularSearches
    \/ \E value \in PeriodOptions : setPeriod(value)
    \/ \E value \in LimitOptions : setLimit(value)
    \/ ShowMoreClick
    \/ \E i \in 1..Len(popularInflight) : \E data \in PopularResponses :
           PopularResponds(i, data)
    \/ \E i \in 1..Len(popularInflight) : PopularFails(i)

SpecPopularSearches == InitPopularSearches /\ [][NextPopularSearches]_vars

(***************************************************************************)
(* LoginForm and RegisterForm under UserMenu and AuthProvider, for a user   *)
(* the session check has found signed out                                  *)
(***************************************************************************)
\* the session check has found no user: UserMenu offers Login and Sign Up
InitForms ==
    /\ FormsClosed
    /\ authMounted = TRUE
    /\ authState = authReducer(initialState, SET_USER(NoUser))
    /\ authInflight = <<>>
    /\ authCall = "resolved"
    /\ loggedOut = FALSE
    /\ showLoginForm = FALSE
    /\ showRegisterForm = FALSE
    /\ AppNotMounted
    /\ SearchBarInitial
    /\ GetErrorMessageNotCalled
    /\ HealthCheckNotCalled
    /\ ProductApiNotCalled
    /\ SearchHistoryNotMounted
    /\ PopularSearchesNotMounted
    /\ NotObserved

\* the answers to the requests of the forms
FormResponses ==
    {[success |-> TRUE, user |-> UserAlice, message |-> ""],
     [success |-> FALSE, user |-> NoUser, message |-> "Invalid credentials"]}

NextForms ==
    \/ handleLoginClick
    \/ handleRegisterClick
    \/ switchToRegister
    \/ switchToLogin
    \/ \E name \in {"username", "password"} : \E value \in LoginFieldInputs(name) :
           LoginHandleInputChange(name, value)
    \/ LoginHandleSubmit
    \/ LoginHandleClose
    \/ LoginAlertClose
    \/ \E name \in {"username", "email", "password", "confirmPassword"} :
           \E value \in RegisterFieldInputs(name) : RegisterHandleInputChange(name, value)
    \/ RegisterHandleSubmit
    \/ RegisterHandleClose
    \/ RegisterAlertClose
    \/ \E i \in 1..Len(authInflight) : \E response \in FormResponses : SignInResponds(i, response)
    \/ \E i \in 1..Len(authInflight) : \E err \in AuthErrors : SignInFails(i, err)

SpecForms == InitForms /\ [][NextForms]_vars

(***************************************************************************)
(* Properties                                                              *)
(***************************************************************************)
\* every character of s is whitespace (also when s is empty)
IsBlank(s) == \A k \in 1..Len(s) : s[k] \in WhitespaceChars

\* t is s without its leading and trailing whitespace
IsStrippedOf(t, s) ==
    \E i \in 1..(Len(s) + 1) : \E j \in 0..Len(s) :
        /\ t = SubSeq(s, i, j)
        /\ \A k \in 1..(i - 1) : s[k] \in WhitespaceChars
        /\ \A k \in (j + 1)..Len(s) : s[k] \in WhitespaceChars
        /\ i <= j => (s[i] \notin WhitespaceChars /\ s[j] \notin WhitespaceChars)
        /\ i > j => j = i - 1

\* a search that is not a filter or sort operation
IsPlainSearch(request) == request.api = "aiSearch" /\ ~request.isFilterOperation

\* C1: when product requests overlap, once all of them have settled the
\* product list shown is the one returned by the most recently issued request,
\* whatever the order of the responses.
C1_LastRequestWins ==
    (mounted /\ inflight = <<>> /\ latest.status = "ok") => products = latest.products

\* C2: a failed product request sets error to getErrorMessage of the failure;
\* the error, once set, is cleared only by closing the snackbar (user or
\* auto-hide) or by the start of a new request, and changes otherwise only
\* when a further request fails; starting any request clears the error.
C2_ErrorLifecycle ==
    [][/\ \A i \in 1..Len(inflight) : \A err \in RequestErrors :
              RequestFails(i, err) => error' = getErrorMessage(err)
       /\ Len(inflight') > Len(inflight) => error' = Null
       /\ (error # Null /\ error' # error) =>
              \/ handleCloseError
              \/ Len(inflight') > Len(inflight)
              \/ \E i \in 1..Len(inflight) : inflight' = RemoveAt(inflight, i) /\ error' # Null
      ]_vars

C2_Witness ==
    /\ LayoutRendered
    /\ error = MsgServer
    /\ latest.status = "failed"
    /\ inflight = <<>>

\* the request the mount effect of App issues
MountRequest ==
    [api |-> "getAllProducts", query |-> <<>>, filters |-> NotGivenFilters,
     sortBy |-> NotGivenSort, page |-> NoPaging, limit |-> NoPaging]

\* the step leaves the product requests as they are, or one of them settles
NoProductRequestIssued ==
    \/ /\ inflight' = inflight
       /\ handleCloseError \/ currentTab' # currentTab \/ UNCHANGED appVars
    \/ \E i \in 1..Len(inflight) : inflight' = RemoveAt(inflight, i)

\* C3, as the spec states it: no request is retried automatically: the mount
\* effect issues exactly one getAllProducts request, every later request of
\* any kind is issued by a step of the user (a search, a selection, a filter
\* or sort change, clearing the search; selecting a tab is counted as one
\* too), and the step in which a request fails issues none.
C3_NoAutomaticRequest ==
    [][/\ mounted => mounted'
       /\ (~mounted /\ mounted') =>
              /\ inflight = <<>>
              /\ Len(inflight') = 1
              /\ Sent(inflight'[1]) = MountRequest
              /\ ~PanelRequestIssued
       /\ (mounted /\ (Len(inflight') > Len(inflight) \/ PanelRequestIssued)) =>
              \/ UserRequest
              \/ \E newValue \in {0, 1, 2} : handleTabChange(newValue)
       /\ (mounted /\ Len(inflight') <= Len(inflight)) => NoProductRequestIssued
       /\ (\E i \in 1..Len(inflight) : \E err \in RequestErrors : RequestFails(i, err)) =>
              ~PanelRequestIssued
      ]_vars

\* C3, corrected: no product request is retried automatically: the mount
\* effect issues exactly one getAllProducts request, and afterwards a
\* getAllProducts or aiSearch request is issued only by a step of the user;
\* every other step (a response, a failure, closing the snackbar, changing
\* tab, an answer to a panel) issues none.  The panels fetch on their own:
\* SearchHistory and PopularSearches issue their GET whenever they mount, and
\* they mount when their tab is selected and when the layout comes back from
\* the loading screen with their tab selected, which is the step in which a
\* search started from that tab settles, successfully or not.
C3_NoAutomaticProductRequest ==
    [][/\ mounted => mounted'
       /\ (~mounted /\ mounted') =>
              /\ inflight = <<>>
              /\ Len(inflight') = 1
              /\ Sent(inflight'[1]) = MountRequest
              /\ ~PanelRequestIssued
       /\ (mounted /\ Len(inflight') > Len(inflight)) => UserRequest /\ ~PanelRequestIssued
       /\ (mounted /\ Len(inflight') <= Len(inflight)) => NoProductRequestIssued
       /\ LET before == PanelShown(isLoading, currentTab)
              after == PanelShown(isLoading', currentTab')
          IN  /\ (Len(historyInflight') > Len(historyInflight)) <=>
                     (before # "SearchHistory" /\ after = "SearchHistory")
              /\ (before # "SearchHistory" /\ after = "SearchHistory") =>
                     /\ historyInflight' # <<>>
                     /\ \A k \in 1..Len(historyInflight') :
                            historyInflight'[k] = HistoryRequest(1, DefaultHistoryFilters)
                     /\ \/ currentTab' = 1 /\ currentTab # 1 /\ inflight' = inflight
                        \/ /\ currentTab' = currentTab
                           /\ isLoading /\ ~isLoading'
                           /\ \E i \in 1..Len(inflight) :
                                  /\ ~inflight[i].isFilterOperation
                                  /\ inflight' = RemoveAt(inflight, i)
              /\ (Len(popularInflight') > Len(popularInflight)) <=>
                     (before # "PopularSearches" /\ after = "PopularSearches")
              /\ (before # "PopularSearches" /\ after = "PopularSearches") =>
                     /\ popularInflight' = <<PopularRequest(PopularLimit, PopularPeriod)>>
                     /\ \/ currentTab' = 2 /\ currentTab # 2 /\ inflight' = inflight
                        \/ /\ currentTab' = currentTab
                           /\ isLoading /\ ~isLoading'
                           /\ \E i \in 1..Len(inflight) :
                                  /\ ~inflight[i].isFilterOperation
                                  /\ inflight' = RemoveAt(inflight, i)
      ]_vars

\* a search started from the history tab has failed, and SearchHistory,
\* mounted again with the layout, has its GET in flight
C3_Witness ==
    /\ mounted
    /\ latest.status = "failed"
    /\ error # Null
    /\ inflight = <<>>
    /\ ~isLoading
    /\ currentTab = 1
    /\ historyMounted
    /\ historyInflight = <<HistoryRequest(1, DefaultHistoryFilters)>>
    /\ historyData = <<>>

\* C4: submitting a non-empty query issues exactly one aiSearch request with
\* that query (as the SearchBar passes it on), the current filters and sort,
\* page 1 and limit 50; when the request of a search succeeds, searchQuery is
\* its query and products is the list it returned.
C4_SubmitSearch ==
    [][/\ (LayoutRendered /\ currentTab = 0) =>
              \A typed \in TypedStrings :
                  SearchSubmit(typed) =>
                      /\ Len(inflight') = Len(inflight) + 1
                      /\ SubSeq(inflight', 1, Len(inflight)) = inflight
                      /\ IsStrippedOf(inflight'[Len(inflight')].query, typed)
                      /\ Sent(inflight'[Len(inflight')]) =
                             [api |-> "aiSearch", query |-> inflight'[Len(inflight')].query,
                              filters |-> Given(filters), sortBy |-> Given(sortBy),
                              page |-> 1, limit |-> 50]
       /\ \A i \in 1..Len(inflight) : \A data \in BackendLists :
              (IsPlainSearch(inflight[i]) /\ RequestSucceeds(i, data)) =>
                  /\ searchQuery' = inflight[i].query
                  /\ Len(products') = Len(data)
                  /\ \A k \in 1..Len(data) : products'[k].name = data[k].name
      ]_vars

C4_Witness ==
    /\ LayoutRendered
    /\ searchQuery = <<"a">>
    /\ latest.status = "ok"
    /\ products = latest.products
    /\ Len(products) = 2
    /\ inflight = <<>>

\* C5: resetSearch sets searchQuery to '', filters to {} and sortBy to
\* 'relevance' and issues exactly one getAllProducts request without filters
\* and sort; when a getAllProducts request succeeds the list it returned is
\* shown (products, loading screen gone) and searchQuery is empty, so the
\* search banner is not rendered.
C5_ResetSearch ==
    [][/\ resetSearch =>
              /\ searchQuery' = <<>>
              /\ filters' = EmptyFilters
              /\ sortBy' = "relevance"
              /\ Len(inflight') = Len(inflight) + 1
              /\ SubSeq(inflight', 1, Len(inflight)) = inflight
              /\ Sent(inflight'[Len(inflight')]) =
                     [api |-> "getAllProducts", query |-> <<>>, filters |-> NotGivenFilters,
                      sortBy |-> NotGivenSort, page |-> NoPaging, limit |-> NoPaging]
       /\ \A i \in 1..Len(inflight) : \A data \in BackendLists :
              (inflight[i].api = "getAllProducts" /\ RequestSucceeds(i, data)) =>
                  /\ Len(products') = Len(data)
                  /\ \A k \in 1..Len(data) : products'[k].name = data[k].name
                  /\ ~isLoading'
                  /\ searchQuery' = <<>>
      ]_vars

\* the reset has completed while an earlier filter request is still pending
C5_Witness ==
    /\ LayoutRendered
    /\ searchQuery = <<>>
    /\ filters = EmptyFilters
    /\ sortBy = "relevance"
    /\ Len(products) = 2
    /\ Len(inflight) = 1
    /\ inflight[1].isFilterOperation

\* C6: App never issues an aiSearch request with an empty or whitespace-only
\* query, whichever way the search is triggered.
C6_NoBlankSearch ==
    \A i \in 1..Len(inflight) :
        inflight[i].api = "aiSearch" => ~IsBlank(inflight[i].query)

\* C7: while the initial product load or a search that is not a filter
\* operation is in flight, isLoading is true.
C7_LoadingWhileInFlight ==
    (\E i \in 1..Len(inflight) : ~inflight[i].isFilterOperation) => isLoading

\* a search was started while a filter request is still pending
C7_Witness ==
    /\ isLoading
    /\ Len(inflight) = 2
    /\ inflight[1].isFilterOperation
    /\ IsPlainSearch(inflight[2])

\* C8: submitting the SearchBar form calls onSearch exactly once, with the
\* query stripped of leading and trailing whitespace, when the stripped query
\* is non-empty, and does not call it when the query is empty or blank.
C8_SubmitCallsOnSearch ==
    [][handleSubmit =>
           IF IsBlank(query)
           THEN onSearchCalls' = onSearchCalls
           ELSE /\ Len(onSearchCalls') = Len(onSearchCalls) + 1
                /\ SubSeq(onSearchCalls', 1, Len(onSearchCalls)) = onSearchCalls
                /\ IsStrippedOf(onSearchCalls'[Len(onSearchCalls')], query)
      ]_vars

C8_Witness ==
    /\ query = <<" ", "a", " ">>
    /\ onSearchCalls = << <<"a">> >>

\* C9: the submit button is disabled exactly when the query consists of
\* whitespace only (its trimmed value is empty), after any sequence of
\* typing, suggestion clicks and submits.
C9_SubmitDisabledIffBlank ==
    SubmitDisabled <=> IsBlank(query)

C9_Witness ==
    /\ query = <<" ", " ">>
    /\ SubmitDisabled
    /\ Len(onSearchCalls) = 2
    /\ onSearchCalls[1] \in Suggestions

\* C10: getErrorMessage maps an axios error, by the first case that applies:
\* response status 404, response status 500, code ECONNABORTED, code
\* ERR_NETWORK, each to its fixed text, and otherwise a message carried by
\* the response to that message.
C10_ErrorMessageCases ==
    (message # NotReturned /\ thrown.kind = "object" /\ thrown.isAxiosError) =>
        LET status == IF thrown.response.present THEN thrown.response.status ELSE NoStatus
            carried == IF thrown.response.present THEN thrown.response.message ELSE Undefined
        IN  /\ status = 404 => message = "The requested resource was not found."
            /\ status = 500 => message = "Server error occurred. Please try again later."
            /\ (status \notin {404, 500} /\ thrown.code = "ECONNABORTED") =>
                   message = "Request timed out. Please check your connection."
            /\ (status \notin {404, 500} /\ thrown.code = "ERR_NETWORK") =>
                   message = "Network error. Please check your internet connection."
            /\ (status \notin {404, 500} /\ thrown.code \notin {"ECONNABORTED", "ERR_NETWORK"}
                /\ carried \notin {Undefined, ""}) =>
                   message = carried

C10_Witness ==
    /\ message = "Custom API error message"
    /\ thrown.response.status = 400
    /\ thrown.code = "ERR_BAD_REQUEST"

\* C11: for every value that is not an axios error (null, undefined, a plain
\* Error, any other object) and for an axios error that matches none of the
\* specific cases, getErrorMessage returns the generic text; whatever the
\* value, it returns a string that is not empty.
C11_GenericMessage ==
    message # NotReturned =>
        /\ message # ""
        /\ message # Undefined
        /\ (thrown.kind # "object" \/ ~thrown.isAxiosError) =>
               message = "An unexpected error occurred. Please try again."
        /\ (/\ thrown.kind = "object" /\ thrown.isAxiosError
            /\ (~thrown.response.present \/ thrown.response.status \notin {404, 500})
            /\ thrown.code \notin {"ECONNABORTED", "ERR_NETWORK"}
            /\ (~thrown.response.present \/ thrown.response.message \in {Undefined, ""})) =>
               message = "An unexpected error occurred. Please try again."

\* an axios error whose response carries an empty message got the generic text
C11_Witness ==
    /\ message = MsgGeneric
    /\ thrown.isAxiosError
    /\ thrown.response.present
    /\ thrown.response.status = 400
    /\ thrown.response.message = ""

\* C12: healthCheck never throws: it resolves with true when GET /health
\* succeeds and with false when the request is rejected, whatever the reason.
C12_HealthCheckNeverThrows ==
    /\ healthPhase \in {"idle", "pending", "returned"}
    /\ healthPhase = "returned" => (healthResult <=> healthOutcome.ok)

\* the request was rejected with a value that is no axios error
C12_Witness ==
    /\ healthPhase = "returned"
    /\ healthResult = FALSE
    /\ ~healthOutcome.ok
    /\ healthOutcome.reason.kind = "null"

\* C13: the mount effect of AuthProvider issues exactly one session check;
\* when that check settles isLoading is false, and the state is authenticated
\* with the user of the response exactly when the response says authenticated
\* and carries a user; when it says otherwise, or the check failed, the state
\* is unauthenticated (no user).
C13_SessionCheckOnMount ==
    [][/\ (~authMounted /\ authMounted') =>
              /\ authInflight = <<>>
              /\ Len(authInflight') = 1
              /\ authInflight'[1].op = "getSession"
              /\ authState'.isLoading
       /\ \A i \in 1..Len(authInflight) :
              authInflight[i].onMount =>
                  /\ \A response \in SessionResponses :
                         SessionResponds(i, response) =>
                             /\ ~authState'.isLoading
                             /\ IF response.authenticated /\ response.user # NoUser
                                THEN /\ authState'.isAuthenticated
                                     /\ authState'.user = response.user
                                ELSE /\ ~authState'.isAuthenticated
                                     /\ authState'.user = NoUser
                  /\ SessionFails(i) =>
                         /\ ~authState'.isLoading
                         /\ ~authState'.isAuthenticated
                         /\ authState'.user = NoUser
      ]_vars

\* the session check of the mount found the user signed in
C13_Witness ==
    /\ authMounted
    /\ authInflight = <<>>
    /\ authState = [user |-> UserAlice, isAuthenticated |-> TRUE, isLoading |-> FALSE,
                    error |-> Null]
    /\ ~loggedOut

\* C14: whenever no product request is in flight, isLoading and
\* isFilteringOrSorting are both false (each flag raised for a request is
\* lowered when the request settles, in success or in failure), and from
\* every loading state App reaches a state where both flags are false.
C14_LoadingEnds ==
    /\ []((mounted /\ inflight = <<>>) => (~isLoading /\ ~isFilteringOrSorting))
    /\ (isLoading \/ isFilteringOrSorting) ~> (~isLoading /\ ~isFilteringOrSorting)

\* the initial load has failed and the loading screen is gone
C14_Witness ==
    /\ mounted
    /\ inflight = <<>>
    /\ latest.status = "failed"
    /\ products = <<>>
    /\ searchQuery = <<>>
    /\ error # Null
    /\ ~isLoading
    /\ ~isFilteringOrSorting

\* the number a string of decimal digits denotes
RECURSIVE DecimalValue(_)
DecimalValue(s) ==
    IF s = <<>> THEN 0
    ELSE 10 * DecimalValue(SubSeq(s, 1, Len(s) - 1))
         + (CHOOSE d \in 0..9 : Digit(d) = s[Len(s)])

\* C15: each product-list function of productApi returns one frontend product
\* per backend product, in the same order, with id the decimal string of the
\* backend id, image the imageUrl, aiExplanation the ai_explanation, currency
\* 'USD' and name, price and description as they were; an empty backend list
\* gives an empty list.
C15_ProductListTransformed ==
    apiReturned =>
        /\ Len(apiResult) = Len(backendList)
        /\ \A k \in 1..Len(backendList) :
               /\ Len(apiResult[k].id) > 0
               /\ \A c \in 1..Len(apiResult[k].id) :
                      apiResult[k].id[c] \in {"0", "1", "2", "3", "4", "5", "6", "7", "8", "9"}
               /\ (Len(apiResult[k].id) > 1 => apiResult[k].id[1] # "0")
               /\ DecimalValue(apiResult[k].id) = backendList[k].id
               /\ apiResult[k].image = backendList[k].imageUrl
               /\ apiResult[k].aiExplanation = backendList[k].ai_explanation
               /\ apiResult[k].currency = "USD"
               /\ apiResult[k].name = backendList[k].name
               /\ apiResult[k].price = backendList[k].price
               /\ apiResult[k].description = backendList[k].description

\* aiSearch returned three products, the id 12 among them
C15_Witness ==
    /\ apiReturned
    /\ apiFunction = "aiSearch"
    /\ Len(apiResult) = 3
    /\ apiResult[2].id = <<"1", "2">>
    /\ apiResult[2].aiExplanation = "Perfect for gaming"
    /\ apiResult[3].id = <<"1">>

\* C16: in every reachable auth state isAuthenticated is true exactly when
\* user is not null.
C16_AuthenticatedIffUser ==
    authState.isAuthenticated <=> (authState.user.username # "<null>")

\* a user signed out, and a sign-in after that failed
C16_Witness ==
    /\ loggedOut
    /\ authState.user = NoUser
    /\ ~authState.isAuthenticated
    /\ authState.error = "Login failed"
    /\ authCall = "rejected"

\* C17: while a login or register request is in flight, isLoading of the auth
\* state is true (so the fields and submit buttons of the login and register
\* forms, disabled={state.isLoading}, stay disabled until it settles).
C17_LoadingWhileSigningIn ==
    (\E i \in 1..Len(authInflight) : authInflight[i].op \in {"login", "register"}) =>
        authState.isLoading

\* C18: when logout settles, whether its request succeeded or failed, the
\* auth state is unauthenticated (user null, isAuthenticated false, error
\* null, isLoading false) and the promise of logout is resolved, not rejected.
C18_LogoutAlwaysSignsOut ==
    [][\A i \in 1..Len(authInflight) :
           authInflight[i].op = "logout" =>
               \A ok \in BOOLEAN :
                   LogoutSettles(i, ok) =>
                       /\ authState'.user.username = "<null>"
                       /\ authState'.user = [id |-> 0, username |-> "<null>", theme |-> "<null>"]
                       /\ authState'.isAuthenticated = FALSE
                       /\ authState'.error = "<null>"
                       /\ authState'.isLoading = FALSE
                       /\ authCall' = "resolved"
                       /\ Len(authInflight') = Len(authInflight) - 1
      ]_vars

\* a logout has completed while an updatePreferences request is still pending
C18_Witness ==
    /\ loggedOut
    /\ authCall = "resolved"
    /\ authState = [user |-> NoUser, isAuthenticated |-> FALSE, isLoading |-> FALSE,
                    error |-> Null]
    /\ Len(authInflight) = 1
    /\ authInflight[1].op = "updatePreferences"
    /\ authInflight[1].stale

\* C19: once a logout has completed, the auth state has no user until a
\* login, register or session check issued after that logout succeeds; the
\* response to a request issued before the logout puts no user back.
C19_StaysSignedOut ==
    loggedOut => (authState.user = NoUser /\ ~authState.isAuthenticated)

\* C20: when login or register fails, by a rejected request or by a response
\* that lacks success or a user, user and isAuthenticated are unchanged,
\* isLoading is false, the promise is rejected (the error is rethrown), and
\* error is the server's message when there is one, else the error's own
\* message, else 'Login failed' / 'Registration failed'.
C20_SignInFailure ==
    [][\A i \in 1..Len(authInflight) :
           (/\ Len(authInflight') = Len(authInflight) - 1
            /\ authInflight[i].op \in {"login", "register"}
            /\ \A k \in 1..Len(authInflight') :
                   authInflight'[k].op = authInflight[IF k < i THEN k ELSE k + 1].op) =>
               LET fallback == IF authInflight[i].op = "login" THEN "Login failed"
                               ELSE "Registration failed"
                   failed == /\ authState'.user = authState.user
                             /\ authState'.isAuthenticated = authState.isAuthenticated
                             /\ authState'.isLoading = FALSE
                             /\ authCall' = "rejected"
               IN  /\ \A err \in AuthErrors :
                          \/ /\ failed
                             /\ authState'.error =
                                    IF err.responseMessage \notin {"<undefined>", ""}
                                    THEN err.responseMessage
                                    ELSE IF err.message \notin {"<undefined>", ""}
                                         THEN err.message
                                         ELSE fallback
                          \/ ~SignInFails(i, err)
                   /\ \A response \in AuthResponses :
                          \/ response.success /\ response.user.username # "<null>"
                          \/ /\ failed
                             /\ authState'.error =
                                    IF response.message # "" THEN response.message
                                    ELSE fallback
                          \/ ~SignInResponds(i, response)
      ]_vars

\* a registration failed without any message while a user was signed in by an
\* earlier submit of the form
C20_Witness ==
    /\ authCall = "rejected"
    /\ authState.error = "Registration failed"
    /\ authState.user = UserAlice
    /\ authState.isAuthenticated
    /\ ~authState.isLoading

\* C23: isFilteringOrSorting is true whenever at least one filter or sort
\* request is in flight: the "Applying filters" indicator does not disappear
\* while such a request is still pending.
C23_FilteringWhileInFlight ==
    (\E i \in 1..Len(inflight) : inflight[i].isFilterOperation) => isFilteringOrSorting

\* C24: a failed getAllProducts or aiSearch request leaves the product list
\* unchanged: the products shown before the failure are shown after it.
C24_FailureKeepsProducts ==
    [][inflight # <<>> =>
           \A i \in 1..Len(inflight) : \A err \in RequestErrors :
               RequestFails(i, err) => products' = products
      ]_vars

\* a search failed after the initial load had filled the list
C24_Witness ==
    /\ LayoutRendered
    /\ Truthy(searchQuery)
    /\ latest.status = "failed"
    /\ error # Null
    /\ Len(products) = 2
    /\ inflight = <<>>

\* C28: getErrorMessage gives the status and code cases precedence over a
\* message of the server: an axios error with response status 404 or 500
\* yields the fixed text of that status even when response.data.message is
\* present, and the server's message is returned only when neither a status
\* case nor a code case applies.
C28_StatusBeforeServerMessage ==
    (message # NotReturned /\ thrown.kind = "object" /\ thrown.isAxiosError
     /\ thrown.response.present /\ thrown.response.message \notin {Undefined, ""}) =>
        /\ thrown.response.status = 404 => message = MsgNotFound
        /\ thrown.response.status = 500 => message = MsgServer
        /\ message = thrown.response.message =>
               /\ thrown.response.status \notin {404, 500}
               /\ thrown.code \notin {"ECONNABORTED", "ERR_NETWORK"}

\* a 404 response that carries a message of its own got the fixed 404 text
C28_Witness ==
    /\ message = MsgNotFound
    /\ thrown.isAxiosError
    /\ thrown.response.present
    /\ thrown.response.status = 404
    /\ thrown.response.message = "Custom API error message"

\* C21: after "Clear all filters and sorting" is used during a search and the
\* requests it issued have all succeeded, filters is {} and sortBy is
\* 'relevance', and the products shown are the results for the current query
\* with no filters and relevance sort.
C21_ClearAllFilters ==
    (mounted /\ inflight = <<>> /\ lastOp = "clear" /\ ~failedSince /\ Truthy(searchQuery)) =>
        /\ filters = EmptyFilters
        /\ sortBy = "relevance"
        /\ shown = [api |-> "aiSearch", query |-> searchQuery,
                    filters |-> Given(EmptyFilters), sortBy |-> Given("relevance"),
                    page |-> SearchPage, limit |-> SearchLimit]

\* C22: after filter and sort changes during a search, once all requests have
\* settled filters and sortBy are what the user selected last (what the
\* controls showed right after the last change): a late response to an
\* earlier request does not restore older filters or an older sort.
C22_SelectionsSurvive ==
    (mounted /\ inflight = <<>> /\ lastOp \in {"filters", "sort"}) =>
        /\ filters = wanted.filters
        /\ sortBy = wanted.sortBy

\* C25: whenever no request is in flight and searchQuery is not empty, the
\* products shown are the results of a successful aiSearch for exactly that
\* searchQuery.
C25_BannerMatchesList ==
    (mounted /\ inflight = <<>> /\ Truthy(searchQuery)) =>
        /\ shown.api = "aiSearch"
        /\ shown.query = searchQuery

\* C26: while the user is signed out (not authenticated, auth state not
\* loading) the search history list is empty: signing out clears it, and it
\* stays empty until the user signs in.
C26_HistoryEmptyWhileSignedOut ==
    (historyMounted /\ ~authState.isAuthenticated /\ ~authState.isLoading) =>
        historyData = <<>>

\* s consists of a non-empty local part, one "@" and a domain that has a "."
\* with something before and after it, without whitespace
MatchesEmailPattern(s) ==
    LET ats == {k \in 1..Len(s) : s[k] = "@"}
    IN  /\ Cardinality(ats) = 1
        /\ \A k \in 1..Len(s) : s[k] \notin WhitespaceChars
        /\ \A a \in ats : a > 1 /\ \E d \in (a + 2)..(Len(s) - 1) : s[d] = "."

\* C27: a login request is issued only when username and password are both
\* non-empty, and a register request only when username, email and password
\* are present, the username has at least 3 characters, the password has at
\* least 6 characters and equals the confirmation, and the email matches the
\* pattern; a submit that fails these sets a local error and sends nothing.
C27_RequestsOnlyFromValidForms ==
    [][LET sent == Len(authInflight') > Len(authInflight)
           request == authInflight'[Len(authInflight')]
       IN  /\ (sent /\ request.op = "login") =>
                  /\ loginFormData.username # <<>>
                  /\ loginFormData.password # <<>>
                  /\ request.data = loginFormData
           /\ (LoginHandleSubmit /\ (loginFormData.username = <<>> \/ loginFormData.password = <<>>)) =>
                  /\ authInflight' = authInflight
                  /\ loginLocalError' # Null
           /\ (sent /\ request.op = "register") =>
                  /\ registerFormData.username # <<>>
                  /\ registerFormData.email # <<>>
                  /\ registerFormData.password # <<>>
                  /\ Len(registerFormData.username) >= 3
                  /\ Len(registerFormData.password) >= 6
                  /\ registerFormData.password = confirmPassword
                  /\ MatchesEmailPattern(registerFormData.email)
                  /\ request.data.username = registerFormData.username
                  /\ request.data.email = registerFormData.email
                  /\ request.data.password = registerFormData.password
           /\ (/\ RegisterHandleSubmit
               /\ \/ Len(registerFormData.username) < 3
                  \/ Len(registerFormData.password) < 6
                  \/ registerFormData.password # confirmPassword
                  \/ ~MatchesEmailPattern(registerFormData.email)) =>
                  /\ authInflight' = authInflight
                  /\ registerLocalError' # Null
      ]_vars

\* both forms have sent a request, and a later submit of each was refused
C27_Witness ==
    /\ Len(authInflight) = 2
    /\ authInflight[1].op = "login"
    /\ authInflight[2].op = "register"
    /\ authInflight[2].data.email = <<"a", "@", "b", ".", "c">>
    /\ loginLocalError = "Please fill in all fields"
    /\ registerLocalError = "Passwords do not match"

====
